---------------------------- MODULE Spec2Model ----------------------------
(* Model of the sheet-driven MikroTik reconciliation engine               *)
(* (src/sheet_sync.py, src/mikrotik_manager.py, src/main.py).             *)
(*                                                                        *)
(* Python strings are sequences of one-character strings, so that upper,  *)
(* lower, strip, split, startswith and "in" are computed and not assumed. *)
EXTENDS Integers, Sequences, FiniteSets, TLC

(* ------------------------------------------------------------------ *)
(* Python str operations                                               *)
(* ------------------------------------------------------------------ *)
UpperAlpha == <<"A","B","C","D","E","F","G","H","I","J","K","L","M",
                "N","O","P","Q","R","S","T","U","V","W","X","Y","Z">>

LowerAlpha == <<"a","b","c","d","e","f","g","h","i","j","k","l","m",
                "n","o","p","q","r","s","t","u","v","w","x","y","z">>

Digits == <<"0","1","2","3","4","5","6","7","8","9">>

\* the line feed
LF == "\n"

\* every character the model's strings are made of
Chars == {UpperAlpha[i] : i \in DOMAIN UpperAlpha} \cup {LowerAlpha[i] : i \in DOMAIN LowerAlpha}
         \cup {Digits[i] : i \in DOMAIN Digits} \cup {" ", "@", "=", "-", ".", ":", "/", LF}

LowerMap ==
    [c \in Chars |->
        IF \E i \in DOMAIN UpperAlpha : UpperAlpha[i] = c
        THEN LowerAlpha[CHOOSE i \in DOMAIN UpperAlpha : UpperAlpha[i] = c]
        ELSE c]

UpperMap ==
    [c \in Chars |->
        IF \E i \in DOMAIN LowerAlpha : LowerAlpha[i] = c
        THEN UpperAlpha[CHOOSE i \in DOMAIN LowerAlpha : LowerAlpha[i] = c]
        ELSE c]

LowerChar(c) == LowerMap[c]

UpperChar(c) == UpperMap[c]

\* str.lower()
Lower(s) == [i \in DOMAIN s |-> LowerChar(s[i])]

\* str.upper()
Upper(s) == [i \in DOMAIN s |-> UpperChar(s[i])]

\* p in s, where the code asks s.startswith(p)
StartsWithAnywhere(s, p) ==
    \E i \in 1..(Len(s) - Len(p) + 1) : SubSeq(s, i, i + Len(p) - 1) = p

\* str.startswith(p)
StartsWith(s, p) ==
    /\ Len(p) <= Len(s)
    /\ SubSeq(s, 1, Len(p)) = p

\* the least index at which sub occurs in s, 0 when it does not (str.find + 1)
FindAt(s, sub) ==
    LET hits == {i \in 1..(Len(s) - Len(sub) + 1) : SubSeq(s, i, i + Len(sub) - 1) = sub}
    IN  IF hits = {} THEN 0 ELSE CHOOSE i \in hits : \A j \in hits : i <= j

\* sub in s
Contains(s, sub) == FindAt(s, sub) # 0

IsSpace(c) == c = " " \/ c = LF

\* str.strip()
Strip(s) ==
    LET keep == {i \in DOMAIN s : ~IsSpace(s[i])}
    IN  IF keep = {} THEN <<>>
        ELSE LET lo == CHOOSE i \in keep : \A j \in keep : i <= j
                 hi == CHOOSE i \in keep : \A j \in keep : j <= i
             IN  SubSeq(s, lo, hi)

RECURSIVE Split(_, _)
\* str.split(sep): the list of the pieces of s between the occurrences of sep
Split(s, sep) ==
    LET at == FindAt(s, sep)
    IN  IF at = 0 THEN <<s>>
        ELSE <<SubSeq(s, 1, at - 1)>> \o Split(SubSeq(s, at + Len(sep), Len(s)), sep)

\* str.split(sep, 1): at most two pieces
Split1(s, sep) ==
    LET at == FindAt(s, sep)
    IN  IF at = 0 THEN <<s>>
        ELSE <<SubSeq(s, 1, at - 1), SubSeq(s, at + Len(sep), Len(s))>>

(* ------------------------------------------------------------------ *)
(* String literals of the source                                       *)
(* ------------------------------------------------------------------ *)
MARKER == <<"Z","Z","Z","Z","=","B","l","o","c","k","e","d"," ","u","n","a","u","t","h","o","r","i","z","e","d">>

SEP == <<" ","@">>

AT == <<"@">>

EQ == <<"=">>

DASH == <<"-">>

DOT == <<".">>

CMD_CUT == <<"C","U","T">>

CMD_NOT_PAY == <<"N","O","T"," ","P","A","Y">>

CMD_LIMIT == <<"L","I","M","I","T","=">>

CMD_NEW == <<"N","E","W","=">>

CMD_UPD_MAC == <<"U","P","D","-","M","A","C","=">>

CMD_ACTIVATE == <<"A","C","T","I","V","A","T","E","=">>

CMD_RE_NAME == <<"R","E","=","N","A","M","E">>

CMD_RE_NUMBER == <<"R","E","=","N","U","M","B","E","R">>

NOT_PAY_ALIAS == <<"N","O","T","-","P","A","Y">>

L_BLOCK == <<"B","L","O","C","K">>

L_WAITING == <<"W","a","i","t","i","n","g">>

L_NOT_PAY == <<"N","o","t"," ","P","a","y">>

L_OLD_DATE == <<"O","l","d","-","D","a","t","e">>

L_NO_MAC == <<"N","O","-","M","A","C">>

L_ALREADY_EXISTS == <<"A","l","r","e","a","d","y","-","E","x","i","s","t","s">>

L_IP_NOT_FOUND == <<"I","P","-","N","o","t","-","F","o","u","n","d">>

L_WRONG_MAC == <<"W","r","o","n","g","-","M","A","C">>

L_DELETE_FAILED == <<"D","e","l","e","t","e","-","F","a","i","l","e","d">>

L_CLIENT_NOT_FOUND == <<"C","l","i","e","n","t","-","N","o","t","-","F","o","u","n","d">>

L_NO_NOTES_COL == <<"N","O","-","N","O","T","E","S","-","C","O","L">>

L_NO_NAME == <<"N","O","-","N","A","M","E">>

L_NO_PHONE == <<"N","O","-","P","H","O","N","E">>

L_NO_COMMENT == <<"N","o","-","C","o","m","m","e","n","t">>

L_UPDATE_FAILED == <<"U","p","d","a","t","e","-","F","a","i","l","e","d">>

TYPE_BYPASSED == "bypassed"

TYPE_BLOCKED == "blocked"

(* ------------------------------------------------------------------ *)
(* Device calls that can fail with a transport error; a row step names *)
(* the set F of the call sites that raise while it runs.               *)
(* ------------------------------------------------------------------ *)
Sites == {"load", "findmac", "set", "add", "remove", "lease", "arp",
          "sched_get", "sched_add", "sched_remove"}

(* ------------------------------------------------------------------ *)
(* Python dict with insertion order: a sequence of [key, val] entries  *)
(* ------------------------------------------------------------------ *)
DictHas(d, k) == \E i \in DOMAIN d : d[i].key = k

\* dict.get(k): <<>> is None, <<v>> is the value
DictGet(d, k) ==
    IF DictHas(d, k) THEN <<d[CHOOSE i \in DOMAIN d : d[i].key = k].val>> ELSE <<>>

\* d.setdefault(k, v): an existing key keeps its value
DictPutKeepingFirst(d, k, v) ==
    IF DictHas(d, k) THEN d ELSE Append(d, [key |-> k, val |-> v])

\* d[k] = v: an existing key keeps its position and takes the new value
DictPut(d, k, v) ==
    IF DictHas(d, k)
    THEN [i \in DOMAIN d |-> IF d[i].key = k THEN [key |-> k, val |-> v] ELSE d[i]]
    ELSE Append(d, [key |-> k, val |-> v])

\* the first element of a sequence among the positions hits, as <<x>>, or <<>>
FirstWhere(seq, hits) ==
    IF hits = {} THEN <<>>
    ELSE <<seq[CHOOSE i \in hits : \A j \in hits : i <= j]>>

(* ------------------------------------------------------------------ *)
(* MikrotikManager: directory snapshot and name resolution             *)
(* ------------------------------------------------------------------ *)
extract_client_name(full_comment) == Strip(Split(full_comment, SEP)[1])

RECURSIVE load_fold(_, _, _)
load_fold(bs, i, clients) ==
    IF i > Len(bs) THEN clients
    ELSE load_fold(bs, i + 1,
            IF bs[i].comment # <<>>
            THEN DictPut(clients, extract_client_name(bs[i].comment), bs[i])
            ELSE clients)

\* _load_clients: the snapshot built from the device's binding list; {} when
\* the list call raises
load_clients(bindings, F) ==
    IF "load" \in F THEN <<>> ELSE load_fold(bindings, 1, <<>>)

\* find_client_flexible with the partial match tried before the
\* case-insensitive one
find_client_flexible_partial_first(cache, client_name) ==
    LET name  == Strip(client_name)
        exact == DictGet(cache, name)
        ci    == FirstWhere(cache, {i \in DOMAIN cache : Lower(cache[i].key) = Lower(name)})
        part  == FirstWhere(cache, {i \in DOMAIN cache : Contains(Lower(cache[i].key), Lower(name))})
    IN  IF exact # <<>> THEN exact
        ELSE IF part # <<>> THEN <<part[1].val>>
        ELSE IF ci # <<>> THEN <<ci[1].val>>
        ELSE <<>>

find_client_flexible(cache, client_name) ==
    LET name  == Strip(client_name)
        exact == DictGet(cache, name)
        ci    == FirstWhere(cache, {i \in DOMAIN cache : Lower(cache[i].key) = Lower(name)})
        part  == FirstWhere(cache, {i \in DOMAIN cache : Contains(Lower(cache[i].key), Lower(name))})
    IN  IF exact # <<>> THEN exact
        ELSE IF ci # <<>> THEN <<ci[1].val>>
        ELSE IF part # <<>> THEN <<part[1].val>>
        ELSE <<>>

find_client_in_ip_bindings(cache, client_name) ==
    LET exact_match == DictGet(cache, Strip(client_name))
    IN  IF exact_match # <<>> THEN exact_match
        ELSE find_client_flexible(cache, client_name)

(* ------------------------------------------------------------------ *)
(* The device's binding list resource                                  *)
(* ------------------------------------------------------------------ *)
HasId(bindings, id) == \E i \in DOMAIN bindings : bindings[i].id = id

\* list_ip_bindings.set(id=..., type=...)
SetType(bindings, id, type) ==
    [i \in DOMAIN bindings |->
        IF bindings[i].id = id THEN [bindings[i] EXCEPT !.type = type] ELSE bindings[i]]

\* list_ip_bindings.set(id=..., **{'mac-address': ...})
SetMac(bindings, id, mac) ==
    [i \in DOMAIN bindings |->
        IF bindings[i].id = id THEN [bindings[i] EXCEPT !.mac = mac] ELSE bindings[i]]

\* list_ip_bindings.set(id=..., comment=...)
SetComment(bindings, id, comment) ==
    [i \in DOMAIN bindings |->
        IF bindings[i].id = id THEN [bindings[i] EXCEPT !.comment = comment] ELSE bindings[i]]

\* list_ip_bindings.remove(id=...)
RemoveId(bindings, id) ==
    LET keep == {i \in DOMAIN bindings : bindings[i].id # id}
        RECURSIVE pick(_)
        pick(i) == IF i > Len(bindings) THEN <<>>
                   ELSE (IF i \in keep THEN <<bindings[i]>> ELSE <<>>) \o pick(i + 1)
    IN  pick(1)

\* AddBinding with the entry created in the blocked state
AddBindingBlocked(bindings, id, mac, comment) ==
    Append(bindings, [id |-> id, mac |-> mac, type |-> TYPE_BLOCKED, comment |-> comment])

\* list_ip_bindings.add(mac-address, type='bypassed', comment): the device
\* appends the new entry under a fresh id
AddBinding(bindings, id, mac, comment) ==
    Append(bindings, [id |-> id, mac |-> mac, type |-> TYPE_BYPASSED, comment |-> comment])

(* ------------------------------------------------------------------ *)
(* MikrotikManager operations. m is the manager with the device it     *)
(* talks to: [bindings, cache, nextId, sched, nextSched].              *)
(* Every operation yields [m, ok, err].                                *)
(* ------------------------------------------------------------------ *)
Ret(m, ok, err) == [m |-> m, ok |-> ok, err |-> err]

refresh_clients_cache(m, F) == [m EXCEPT !.cache = load_clients(m.bindings, F)]

\* block_client reporting success when the device update raised
block_client_unchecked(m, client_name, F) ==
    LET binding == find_client_in_ip_bindings(m.cache, client_name)
    IN  IF binding = <<>> THEN Ret(m, FALSE, <<>>)
        ELSE IF "set" \in F \/ ~HasId(m.bindings, binding[1].id) THEN Ret(m, TRUE, <<>>)
        ELSE Ret([m EXCEPT !.bindings = SetType(m.bindings, binding[1].id, TYPE_BLOCKED)],
                 TRUE, <<>>)

block_client(m, client_name, F) ==
    LET binding == find_client_in_ip_bindings(m.cache, client_name)
    IN  IF binding = <<>> THEN Ret(m, FALSE, <<>>)
        ELSE IF "set" \in F \/ ~HasId(m.bindings, binding[1].id) THEN Ret(m, FALSE, <<>>)
        ELSE Ret([m EXCEPT !.bindings = SetType(m.bindings, binding[1].id, TYPE_BLOCKED)],
                 TRUE, <<>>)

activate_client(m, client_name, F) ==
    LET binding == find_client_in_ip_bindings(m.cache, client_name)
    IN  IF binding = <<>> THEN Ret(m, FALSE, <<>>)
        ELSE IF "set" \in F \/ ~HasId(m.bindings, binding[1].id) THEN Ret(m, FALSE, <<>>)
        ELSE Ret([m EXCEPT !.bindings = SetType(m.bindings, binding[1].id, TYPE_BYPASSED)],
                 TRUE, <<>>)

is_client_blocked(m, client_name) ==
    LET binding == find_client_in_ip_bindings(m.cache, client_name)
    IN  binding # <<>> /\ binding[1].type = TYPE_BLOCKED

is_client_active(m, client_name) ==
    LET binding == find_client_in_ip_bindings(m.cache, client_name)
    IN  binding # <<>> /\ binding[1].type = TYPE_BYPASSED

get_client_mac(m, client_name) ==
    LET binding == find_client_in_ip_bindings(m.cache, client_name)
    IN  IF binding # <<>> THEN binding[1].mac ELSE <<>>

IsDigit(c) == \E i \in DOMAIN Digits : Digits[i] = c

AllDigits(s) == \A i \in DOMAIN s : IsDigit(s[i])

DigitValue(c) == (CHOOSE i \in DOMAIN Digits : Digits[i] = c) - 1

RECURSIVE ParseInt(_)
\* int(s) for a string of decimal digits
ParseInt(s) ==
    IF s = <<>> THEN 0
    ELSE 10 * ParseInt(SubSeq(s, 1, Len(s) - 1)) + DigitValue(s[Len(s)])

\* re.match(r'^(\d{1,3}\.){3}\d{1,3}$') and every part in [0, 255]; '$'
\* also matches before a line feed that ends the text, and int() ignores
\* that line feed
is_ip_address(identifier) ==
    LET n == Len(identifier)
        matched == IF n > 0 /\ identifier[n] = LF THEN SubSeq(identifier, 1, n - 1)
                   ELSE identifier
        parts == Split(matched, DOT)
    IN  /\ Len(parts) = 4
        /\ \A i \in 1..4 : Len(parts[i]) \in 1..3 /\ AllDigits(parts[i])
        /\ \A i \in 1..4 : ParseInt(parts[i]) \in 0..255

\* the device's DHCP lease table and ARP table: entries [address, mac]
Leases == << [address |-> <<"1",".","1",".","1",".","1">>, mac |-> <<"C","3">>] >>

ArpTable == << [address |-> <<"1",".","1",".","1",".","2">>, mac |-> <<"A","1">>] >>

\* find_mac_by_ip: <<mac>> or <<>> (None); a failing lease call reads as an
\* empty lease table, a failing ARP call as an empty ARP table
find_mac_by_ip(ip_address, F) ==
    LET leases == IF "lease" \in F THEN <<>> ELSE Leases
        arps   == IF "arp" \in F THEN <<>> ELSE ArpTable
        inL    == FirstWhere(leases, {i \in DOMAIN leases : leases[i].address = ip_address /\ leases[i].mac # <<>>})
        inA    == FirstWhere(arps, {i \in DOMAIN arps : arps[i].address = ip_address /\ arps[i].mac # <<>>})
    IN  IF inL # <<>> THEN <<inL[1].mac>>
        ELSE IF inA # <<>> THEN <<inA[1].mac>>
        ELSE <<>>

\* the first binding in device order whose MAC equals mac_address
\* case-insensitively; None also when the list call raises
find_mac_in_ip_bindings(bindings, mac_address, F) ==
    IF "findmac" \in F THEN <<>>
    ELSE FirstWhere(bindings, {i \in DOMAIN bindings : Lower(bindings[i].mac) = Lower(mac_address)})

\* is_unauthorized_user taking no binding for a placeholder
is_unauthorized_never(comment) == comment # comment

\* is_unauthorized_user taking every binding for a placeholder
is_unauthorized_always(comment) == comment = comment

is_unauthorized_user(comment) == comment # <<>> /\ StartsWith(comment, MARKER)

\* the MAC a New/UpdMac identifier stands for: <<mac>>, or <<>> for an IP
\* address that no table resolves
resolve_identifier(mac_or_ip, F) ==
    IF is_ip_address(mac_or_ip) THEN find_mac_by_ip(mac_or_ip, F) ELSE <<mac_or_ip>>

\* add_new_client, from the conflict check on (lines 113-159)
add_with_mac(m, client_name, mac_address, F) ==
    LET existing == find_mac_in_ip_bindings(m.bindings, mac_address, F)
        unauth   == existing # <<>> /\ is_unauthorized_user(existing[1].comment)
        m1 == IF unauth
              THEN refresh_clients_cache(
                     [m EXCEPT !.bindings = RemoveId(m.bindings, existing[1].id)], F)
              ELSE m
        m2 == refresh_clients_cache(
                [m1 EXCEPT !.bindings = AddBinding(m1.bindings, m1.nextId, mac_address, client_name),
                           !.nextId = m1.nextId + 1], F)
    IN  IF unauth /\ "remove" \in F THEN Ret(m, FALSE, L_DELETE_FAILED)
        ELSE IF existing # <<>> /\ ~unauth THEN Ret(m, FALSE, L_ALREADY_EXISTS)
        ELSE IF "add" \in F THEN Ret(m1, FALSE, L_WRONG_MAC)
        ELSE Ret(m2, TRUE, <<>>)

add_new_client(m, client_name, mac_or_ip, F) ==
    LET mac == resolve_identifier(mac_or_ip, F)
    IN  IF find_client_in_ip_bindings(m.cache, client_name) # <<>>
        THEN Ret(m, FALSE, L_ALREADY_EXISTS)
        ELSE IF mac = <<>> THEN Ret(m, FALSE, L_IP_NOT_FOUND)
        ELSE add_with_mac(m, client_name, mac[1], F)

\* update_client_mac, from the conflict check on (lines 186-247)
update_with_mac(m, existing_binding, mac_address, F) ==
    LET existing == find_mac_in_ip_bindings(m.bindings, mac_address, F)
        other    == existing # <<>> /\ existing[1].id # existing_binding.id
        unauth   == other /\ is_unauthorized_user(existing[1].comment)
        m1 == IF unauth
              THEN refresh_clients_cache(
                     [m EXCEPT !.bindings = RemoveId(m.bindings, existing[1].id)], F)
              ELSE m
        is_blocked == existing_binding.type = TYPE_BLOCKED
        updated == IF is_blocked
                   THEN SetType(SetMac(m1.bindings, existing_binding.id, mac_address),
                                existing_binding.id, TYPE_BYPASSED)
                   ELSE SetMac(m1.bindings, existing_binding.id, mac_address)
        m2 == refresh_clients_cache([m1 EXCEPT !.bindings = updated], F)
    IN  IF unauth /\ "remove" \in F THEN Ret(m, FALSE, L_DELETE_FAILED)
        ELSE IF other /\ ~unauth THEN Ret(m, FALSE, L_ALREADY_EXISTS)
        ELSE IF "set" \in F \/ ~HasId(m1.bindings, existing_binding.id)
             THEN Ret(m1, FALSE, L_WRONG_MAC)
        ELSE Ret(m2, TRUE, <<>>)

update_client_mac(m, client_name, mac_or_ip, F) ==
    LET existing_binding == find_client_in_ip_bindings(m.cache, client_name)
        mac == resolve_identifier(mac_or_ip, F)
    IN  IF existing_binding = <<>> THEN Ret(m, FALSE, L_CLIENT_NOT_FOUND)
        ELSE IF mac = <<>> THEN Ret(m, FALSE, L_IP_NOT_FOUND)
        ELSE update_with_mac(m, existing_binding[1], mac[1], F)

(* ------------------------------------------------------------------ *)
(* Comment rewriting                                                   *)
(* ------------------------------------------------------------------ *)
\* renamed_comment dropping the phone
renamed_comment_bare(current_comment, new_name) == Strip(new_name)

\* the comment update_client_name writes
renamed_comment(current_comment, new_name) ==
    IF Contains(current_comment, SEP)
    THEN Strip(new_name) \o SEP \o Split1(current_comment, SEP)[2]
    ELSE IF Contains(current_comment, AT)
    THEN Strip(new_name) \o SEP \o Split1(current_comment, AT)[2]
    ELSE Strip(new_name)

\* rephoned_comment appending to the whole comment
rephoned_comment_appended(current_comment, new_phone) ==
    current_comment \o SEP \o Strip(new_phone)

\* the comment update_client_phone writes
rephoned_comment(current_comment, new_phone) ==
    IF Contains(current_comment, SEP)
    THEN Split1(current_comment, SEP)[1] \o SEP \o Strip(new_phone)
    ELSE IF Contains(current_comment, AT)
    THEN Split1(current_comment, AT)[1] \o SEP \o Strip(new_phone)
    ELSE current_comment \o SEP \o Strip(new_phone)

update_client_name(m, client_name, new_name, F) ==
    LET existing == find_client_in_ip_bindings(m.cache, client_name)
    IN  IF existing = <<>> THEN Ret(m, FALSE, L_CLIENT_NOT_FOUND)
        ELSE IF existing[1].comment = <<>> THEN Ret(m, FALSE, L_NO_COMMENT)
        ELSE IF "set" \in F \/ ~HasId(m.bindings, existing[1].id)
             THEN Ret(m, FALSE, L_UPDATE_FAILED)
        ELSE Ret(refresh_clients_cache(
                   [m EXCEPT !.bindings = SetComment(m.bindings, existing[1].id,
                                 renamed_comment(existing[1].comment, new_name))], F),
                 TRUE, <<>>)

update_client_phone(m, client_name, new_phone, F) ==
    LET existing == find_client_in_ip_bindings(m.cache, client_name)
    IN  IF existing = <<>> THEN Ret(m, FALSE, L_CLIENT_NOT_FOUND)
        ELSE IF existing[1].comment = <<>> THEN Ret(m, FALSE, L_NO_COMMENT)
        ELSE IF "set" \in F \/ ~HasId(m.bindings, existing[1].id)
             THEN Ret(m, FALSE, L_UPDATE_FAILED)
        ELSE Ret(refresh_clients_cache(
                   [m EXCEPT !.bindings = SetComment(m.bindings, existing[1].id,
                                 rephoned_comment(existing[1].comment, new_phone))], F),
                 TRUE, <<>>)

\* get_client_phone cutting the phone at its next separator
get_client_phone_cut(m, client_name) ==
    LET binding == find_client_in_ip_bindings(m.cache, client_name)
    IN  IF binding = <<>> THEN <<>>
        ELSE IF Contains(binding[1].comment, SEP)
             THEN Strip(Split(binding[1].comment, SEP)[2])
        ELSE IF Contains(binding[1].comment, AT)
             THEN Strip(Split(binding[1].comment, AT)[2])
        ELSE <<>>

get_client_phone(m, client_name) ==
    LET binding == find_client_in_ip_bindings(m.cache, client_name)
    IN  IF binding = <<>> THEN <<>>
        ELSE IF Contains(binding[1].comment, SEP)
             THEN Strip(Split1(binding[1].comment, SEP)[2])
        ELSE IF Contains(binding[1].comment, AT)
             THEN Strip(Split1(binding[1].comment, AT)[2])
        ELSE <<>>

(* ------------------------------------------------------------------ *)
(* Scheduling                                                          *)
(* ------------------------------------------------------------------ *)
\* datetime.now().date() of the run
Today == [year |-> 2026, month |-> 11, day |-> 5]

\* int(s) succeeds: decimal digits, surrounding whitespace allowed
IntOk(s) == Strip(s) # <<>> /\ AllDigits(Strip(s))

IntOf(s) == ParseInt(Strip(s))

IsLeap(y) == (y % 4 = 0 /\ y % 100 # 0) \/ y % 400 = 0

DaysInMonth(y, mo) ==
    IF mo = 2 THEN (IF IsLeap(y) THEN 29 ELSE 28)
    ELSE IF mo \in {4, 6, 9, 11} THEN 30 ELSE 31

\* datetime(y, mo, d) does not raise
DateOk(y, mo, d) ==
    /\ y \in 1..9999
    /\ mo \in 1..12
    /\ d \in 1..DaysInMonth(y, mo)

\* DateAfter taking the current date itself for a later one
DateNotBefore(y, mo, d, t) ==
    \/ y > t.year
    \/ y = t.year /\ mo > t.month
    \/ y = t.year /\ mo = t.month /\ d >= t.day

DateAfter(y, mo, d, t) ==
    \/ y > t.year
    \/ y = t.year /\ mo > t.month
    \/ y = t.year /\ mo = t.month /\ d > t.day

\* is_date_in_future without the comparison with the current date
is_date_in_future_any(block_date) ==
    LET parts == Split(block_date, DASH)
    IN  /\ Len(parts) = 3
        /\ \A i \in 1..3 : IntOk(parts[i])
        /\ DateOk(IntOf(parts[3]), IntOf(parts[2]), IntOf(parts[1]))

is_date_in_future(block_date) ==
    LET parts == Split(block_date, DASH)
    IN  /\ Len(parts) = 3
        /\ \A i \in 1..3 : IntOk(parts[i])
        /\ DateOk(IntOf(parts[3]), IntOf(parts[2]), IntOf(parts[1]))
        /\ DateAfter(IntOf(parts[3]), IntOf(parts[2]), IntOf(parts[1]), Today)

find_existing_schedule(sched, client_name, F) ==
    IF "sched_get" \in F THEN <<>>
    ELSE FirstWhere(sched, {i \in DOMAIN sched : sched[i].name = client_name})

\* delete_existing_schedule: the job list after it ran
delete_existing_schedule(sched, client_name, F) ==
    LET existing == find_existing_schedule(sched, client_name, F)
        keep == {i \in DOMAIN sched : sched[i].id # existing[1].id}
        RECURSIVE pick(_)
        pick(i) == IF i > Len(sched) THEN <<>>
                   ELSE (IF i \in keep THEN <<sched[i]>> ELSE <<>>) \o pick(i + 1)
    IN  IF existing = <<>> \/ "sched_remove" \in F THEN sched ELSE pick(1)

\* the start date of the job: month name index, day, "20" + last two digits of the year
formatted_date(block_date) ==
    LET parts == Split(block_date, DASH)
    IN  [month |-> IntOf(parts[2]),
         day   |-> IntOf(parts[1]),
         year  |-> 2000 + ParseInt(SubSeq(parts[3], Len(parts[3]) - 1, Len(parts[3])))]

\* schedule_block_client reporting success when the scheduler add raised
schedule_block_client_unchecked(m, client_name, mac_address, block_date, F) ==
    LET sched1 == IF find_existing_schedule(m.sched, client_name, F) # <<>>
                  THEN delete_existing_schedule(m.sched, client_name, F)
                  ELSE m.sched
        job == [id |-> m.nextSched, name |-> client_name,
                start_date |-> formatted_date(block_date), mac |-> mac_address]
    IN  IF ~is_date_in_future(block_date) THEN Ret(m, FALSE, <<>>)
        ELSE IF "sched_add" \in F THEN Ret([m EXCEPT !.sched = sched1], TRUE, <<>>)
        ELSE Ret([m EXCEPT !.sched = Append(sched1, job), !.nextSched = m.nextSched + 1],
                 TRUE, <<>>)

schedule_block_client(m, client_name, mac_address, block_date, F) ==
    LET sched1 == IF find_existing_schedule(m.sched, client_name, F) # <<>>
                  THEN delete_existing_schedule(m.sched, client_name, F)
                  ELSE m.sched
        job == [id |-> m.nextSched, name |-> client_name,
                start_date |-> formatted_date(block_date), mac |-> mac_address]
    IN  IF ~is_date_in_future(block_date) THEN Ret(m, FALSE, <<>>)
        ELSE IF "sched_add" \in F THEN Ret([m EXCEPT !.sched = sched1], FALSE, <<>>)
        ELSE Ret([m EXCEPT !.sched = Append(sched1, job), !.nextSched = m.nextSched + 1],
                 TRUE, <<>>)

(* ------------------------------------------------------------------ *)
(* sheet_sync: buildings, cell addresses, the row handler              *)
(* ------------------------------------------------------------------ *)
\* find_buildings_structure: one building per non-empty header cell;
\* col_index is zero-based as in the source
RECURSIVE buildings_from(_, _)
buildings_from(header_row, i) ==
    IF i > Len(header_row) THEN <<>>
    ELSE (IF header_row[i] # <<>> /\ Strip(header_row[i]) # <<>>
          THEN << [name |-> Strip(header_row[i]), client_col |-> i - 1,
                   status_col |-> i, notes_col |-> i + 1] >>
          ELSE <<>>) \o buildings_from(header_row, i + 1)

find_buildings_structure(header_values) ==
    IF Len(header_values) < 1 THEN <<>> ELSE buildings_from(header_values[1], 1)

RECURSIVE column_letter_loop(_, _)
column_letter_loop(index, result) ==
    IF index >= 0
    THEN column_letter_loop((index \div 26) - 1, <<UpperAlpha[(index % 26) + 1]>> \o result)
    ELSE result

get_column_letter(index) == column_letter_loop(index, <<>>)

\* update_sheet_status addressing the column one too far to the right
StatusWriteOffByOne(row_index, new_status, status_col) ==
    [col |-> get_column_letter(status_col + 3), row |-> row_index + 2, val |-> new_status]

\* the cell update_sheet_status addresses, with the value it puts there
StatusWrite(row_index, new_status, status_col) ==
    [col |-> get_column_letter(status_col + 2), row |-> row_index + 2, val |-> new_status]

\* status.split('=')[1]
label_of(status) == Split(status, EQ)[2]

\* the NOT-PAY alias of the New, UpdMac and Activate branches
aliased(new_status) ==
    IF Upper(new_status) = NOT_PAY_ALIAS THEN L_NOT_PAY ELSE new_status

Out(m, writes) == [m |-> m, writes |-> writes]

\* values[row_index][col] raises IndexError
NoCell(values, row_index, col) == Len(values[row_index + 1]) <= col

Cell(values, row_index, col) == values[row_index + 1][col + 1]

cut_branch(m, client_name, building, row_index, F) ==
    LET r == block_client(m, client_name, F)
    IN  IF r.ok THEN Out(r.m, <<StatusWrite(row_index, L_BLOCK, building.status_col)>>)
        ELSE Out(r.m, <<>>)

\* the date check of the LIMIT= branch (lines 100-110)
limit_date_ok(block_date) ==
    LET parts == Split(block_date, DASH)
    IN  /\ Len(parts) = 3
        /\ Len(parts[1]) \in 1..2 /\ Len(parts[2]) \in 1..2 /\ Len(parts[3]) = 4
        /\ IntOk(parts[1]) /\ IntOk(parts[2])
        /\ IntOf(parts[1]) \in 1..31 /\ IntOf(parts[2]) \in 1..12

limit_branch(m, client_name, status, building, row_index, values, F) ==
    LET block_date == Cell(values, row_index, building.notes_col)
        mac_address == get_client_mac(m, client_name)
        s == schedule_block_client(m, client_name, mac_address, block_date, F)
        a == activate_client(s.m, client_name, F)
    IN  IF NoCell(values, row_index, building.notes_col) THEN Out(m, <<>>)
        ELSE IF block_date = <<>> THEN Out(m, <<>>)
        ELSE IF ~limit_date_ok(block_date) THEN Out(m, <<>>)
        ELSE IF mac_address = <<>> THEN Out(m, <<>>)
        ELSE IF ~s.ok
             THEN Out(s.m, <<StatusWrite(row_index, L_OLD_DATE, building.status_col)>>)
        ELSE IF a.ok
             THEN Out(a.m, <<StatusWrite(row_index, label_of(status), building.status_col)>>)
        ELSE Out(a.m, <<>>)

not_pay_branch(m, client_name, building, row_index, F) ==
    LET a == activate_client(m, client_name, F)
    IN  IF is_client_active(m, client_name)
        THEN Out(m, <<StatusWrite(row_index, L_WAITING, building.status_col)>>)
        ELSE IF is_client_blocked(m, client_name)
        THEN (IF a.ok
              THEN Out(a.m, <<StatusWrite(row_index, L_WAITING, building.status_col)>>)
              ELSE Out(a.m, <<>>))
        ELSE Out(m, <<>>)

new_branch(m, client_name, status, building, row_index, values, F) ==
    LET mac_or_ip == Cell(values, row_index, building.notes_col)
        r == add_new_client(m, client_name, Strip(mac_or_ip), F)
    IN  IF NoCell(values, row_index, building.notes_col) THEN Out(m, <<>>)
        ELSE IF mac_or_ip = <<>>
             THEN Out(m, <<StatusWrite(row_index, L_NO_MAC, building.status_col)>>)
        ELSE IF r.ok
             THEN Out(r.m, <<StatusWrite(row_index, aliased(label_of(status)),
                                         building.status_col)>>)
        ELSE Out(r.m, <<StatusWrite(row_index, r.err, building.status_col)>>)

upd_mac_branch(m, client_name, status, building, row_index, values, F) ==
    LET mac_or_ip == Cell(values, row_index, building.notes_col)
        r == update_client_mac(m, client_name, Strip(mac_or_ip), F)
    IN  IF NoCell(values, row_index, building.notes_col) THEN Out(m, <<>>)
        ELSE IF mac_or_ip = <<>>
             THEN Out(m, <<StatusWrite(row_index, L_NO_MAC, building.status_col)>>)
        ELSE IF r.ok
             THEN Out(r.m, <<StatusWrite(row_index, aliased(label_of(status)),
                                         building.status_col)>>)
        ELSE Out(r.m, <<StatusWrite(row_index, r.err, building.status_col)>>)

activate_branch(m, client_name, status, building, row_index, F) ==
    LET a == activate_client(m, client_name, F)
        w == <<StatusWrite(row_index, aliased(label_of(status)), building.status_col)>>
    IN  IF is_client_active(m, client_name) THEN Out(m, w)
        ELSE IF a.ok THEN Out(a.m, w)
        ELSE Out(a.m, <<>>)

re_name_branch(m, client_name, building, row_index, values, F) ==
    LET new_name == Cell(values, row_index, building.notes_col)
        r == update_client_name(m, client_name, Strip(new_name), F)
    IN  IF NoCell(values, row_index, building.notes_col)
        THEN Out(m, <<StatusWrite(row_index, L_NO_NOTES_COL, building.status_col)>>)
        ELSE IF new_name = <<>>
             THEN Out(m, <<StatusWrite(row_index, L_NO_NAME, building.status_col)>>)
        ELSE IF r.ok
             THEN Out(r.m,
                      << StatusWrite(row_index, L_NOT_PAY, building.status_col),
                         [col |-> get_column_letter(building.client_col + 2),
                          row |-> row_index + 2, val |-> Strip(new_name)],
                         [col |-> get_column_letter(building.notes_col + 2),
                          row |-> row_index + 2,
                          val |-> get_client_phone(r.m, Strip(new_name))] >>)
        ELSE Out(r.m, <<StatusWrite(row_index, r.err, building.status_col)>>)

re_number_branch(m, client_name, building, row_index, values, F) ==
    LET new_phone == Cell(values, row_index, building.notes_col)
        r == update_client_phone(m, client_name, Strip(new_phone), F)
    IN  IF NoCell(values, row_index, building.notes_col) THEN Out(m, <<>>)
        ELSE IF new_phone = <<>>
             THEN Out(m, <<StatusWrite(row_index, L_NO_PHONE, building.status_col)>>)
        ELSE IF r.ok
             THEN Out(r.m, <<StatusWrite(row_index, L_NOT_PAY, building.status_col)>>)
        ELSE Out(r.m, <<StatusWrite(row_index, r.err, building.status_col)>>)

\* command_of with the Cut branch taken on a prefix
command_of_cut_prefix(status) ==
    LET up == Upper(status)
    IN  IF StartsWith(up, CMD_CUT) THEN "Cut"
        ELSE IF StartsWith(up, CMD_LIMIT) THEN "Limit"
        ELSE IF up = CMD_NOT_PAY THEN "NotPay"
        ELSE IF StartsWith(up, CMD_NEW) THEN "New"
        ELSE IF StartsWith(up, CMD_UPD_MAC) THEN "UpdMac"
        ELSE IF StartsWith(up, CMD_ACTIVATE) THEN "Activate"
        ELSE IF StartsWith(up, CMD_RE_NAME) THEN "RenameClient"
        ELSE IF StartsWith(up, CMD_RE_NUMBER) THEN "RenamePhone"
        ELSE ""

\* the branch process_client takes for a status text, "" when it takes none
command_of(status) ==
    LET up == Upper(status)
    IN  IF up = CMD_CUT THEN "Cut"
        ELSE IF StartsWith(up, CMD_LIMIT) THEN "Limit"
        ELSE IF up = CMD_NOT_PAY THEN "NotPay"
        ELSE IF StartsWith(up, CMD_NEW) THEN "New"
        ELSE IF StartsWith(up, CMD_UPD_MAC) THEN "UpdMac"
        ELSE IF StartsWith(up, CMD_ACTIVATE) THEN "Activate"
        ELSE IF StartsWith(up, CMD_RE_NAME) THEN "RenameClient"
        ELSE IF StartsWith(up, CMD_RE_NUMBER) THEN "RenamePhone"
        ELSE ""

process_client(m, client_name, status, building, row_index, values, F) ==
    LET cmd == command_of(status)
    IN  IF client_name = <<>> \/ status = <<>> THEN Out(m, <<>>)
        ELSE IF cmd = "Cut" THEN cut_branch(m, client_name, building, row_index, F)
        ELSE IF cmd = "Limit"
             THEN limit_branch(m, client_name, status, building, row_index, values, F)
        ELSE IF cmd = "NotPay" THEN not_pay_branch(m, client_name, building, row_index, F)
        ELSE IF cmd = "New"
             THEN new_branch(m, client_name, status, building, row_index, values, F)
        ELSE IF cmd = "UpdMac"
             THEN upd_mac_branch(m, client_name, status, building, row_index, values, F)
        ELSE IF cmd = "Activate"
             THEN activate_branch(m, client_name, status, building, row_index, F)
        ELSE IF cmd = "RenameClient"
             THEN re_name_branch(m, client_name, building, row_index, values, F)
        ELSE IF cmd = "RenamePhone"
             THEN re_number_branch(m, client_name, building, row_index, values, F)
        ELSE Out(m, <<>>)

\* row_filter admitting every status text
row_filter_any(status) == status # <<>>

\* the filter of process_sheet_data (lines 326-333)
row_filter(status) ==
    LET up == Upper(status)
    IN  \/ up = CMD_CUT
        \/ up = CMD_NOT_PAY
        \/ StartsWith(up, CMD_NEW)
        \/ StartsWith(up, CMD_UPD_MAC)
        \/ StartsWith(up, CMD_ACTIVATE)
        \/ StartsWith(up, CMD_LIMIT)
        \/ StartsWith(up, CMD_RE_NAME)
        \/ StartsWith(up, CMD_RE_NUMBER)

\* the row's handling raises an exception that the handlers of lines 286
\* and 336 catch: a branch that reads the notes cell of a row too short
\* to hold it
row_raises(building, row_index, values) ==
    LET row == values[row_index + 1]
    IN  /\ Len(row) > building.status_col
        /\ row[building.client_col + 1] # <<>>
        /\ row[building.status_col + 1] # <<>>
        /\ row_filter(row[building.status_col + 1])
        /\ command_of(row[building.status_col + 1]) \in {"Limit", "New", "UpdMac", "RenamePhone"}
        /\ NoCell(values, row_index, building.notes_col)

\* the loops of process_sheet_data giving up the pass at a row that raised
next_position_abort(b, r, nrows, nbuildings, raised) ==
    IF raised THEN [phase |-> "idle", bi |-> b, ri |-> r]
    ELSE IF r < nrows THEN [phase |-> "rows", bi |-> b, ri |-> r + 1]
    ELSE IF b < nbuildings THEN [phase |-> "rows", bi |-> b + 1, ri |-> 1]
    ELSE [phase |-> "idle", bi |-> b, ri |-> r]

\* the loops of process_sheet_data (lines 311-339): the row after row r of
\* building b; a row that raised is logged and the loop continues
next_position(b, r, nrows, nbuildings, raised) ==
    IF r < nrows THEN [phase |-> "rows", bi |-> b, ri |-> r + 1]
    ELSE IF b < nbuildings THEN [phase |-> "rows", bi |-> b + 1, ri |-> 1]
    ELSE [phase |-> "idle", bi |-> b, ri |-> r]

\* one iteration of the row loop of process_sheet_data (lines 314-341):
\* what it does to the manager and which cells it writes
process_row(m, building, row_index, values, F) ==
    LET row == values[row_index + 1]
        client_name == row[building.client_col + 1]
        status == row[building.status_col + 1]
    IN  IF Len(row) <= building.client_col THEN Out(m, <<>>)
        ELSE IF client_name = <<>> THEN Out(m, <<>>)
        ELSE IF Len(row) <= building.status_col THEN Out(m, <<>>)
        ELSE IF status = <<>> THEN Out(m, <<>>)
        ELSE IF row_filter(status)
             THEN process_client(m, client_name, status, building, row_index, values, F)
        ELSE Out(m, <<>>)

(* ------------------------------------------------------------------ *)
(* The sheet                                                           *)
(* ------------------------------------------------------------------ *)
\* the header row as values().get(HEADER_RANGE) returns it: two buildings,
\* three columns each
Header == << <<"T","1">>, <<>>, <<>>, <<"T","2">> >>

Buildings == find_buildings_structure(<<Header>>)

RECURSIVE TrimRight(_)
\* the Sheets API leaves out the trailing empty cells of a row and the
\* trailing empty rows of a range
TrimRight(seq) ==
    IF seq # <<>> /\ seq[Len(seq)] = <<>> THEN TrimRight(SubSeq(seq, 1, Len(seq) - 1))
    ELSE seq

\* values().get(DATA_RANGE): sheet[i] is spreadsheet row i + 1, from column C on
ReadValues(sh) == TrimRight([i \in DOMAIN sh |-> TrimRight(sh[i])])

\* widest row the model's sheet holds: the buildings' columns and one more
Width == Len(Header) + 3

\* the zero-based column index a column letter names
ColumnIndex(letters) == CHOOSE i \in 0..(Width + 2) : get_column_letter(i) = letters

PadTo(row, n) == [j \in 1..n |-> IF j <= Len(row) THEN row[j] ELSE <<>>]

\* values().update(range=<col><row>, body=[[val]])
ApplyWrite(sh, w) ==
    LET i == w.row - 1
        j == ColumnIndex(w.col) - 1
    IN  IF i \in DOMAIN sh
        THEN [sh EXCEPT ![i] = [PadTo(sh[i], IF j > Len(sh[i]) THEN j ELSE Len(sh[i]))
                                   EXCEPT ![j] = w.val]]
        ELSE sh

RECURSIVE ApplyWrites(_, _)
ApplyWrites(sh, ws) ==
    IF ws = <<>> THEN sh ELSE ApplyWrites(ApplyWrite(sh, ws[1]), Tail(ws))

(* ------------------------------------------------------------------ *)
(* Inputs: the rows an operator enters and the device states the       *)
(* engine is started against                                           *)
(* ------------------------------------------------------------------ *)
NumRows == 2

InputRows ==
    { <<<<"b","o","b">>, <<"C","U","T">>>>,
      <<<<"a","l">>, <<"C","U","T">>>>,
      <<<<"b","o","b">>, <<"N","O","T"," ","P","A","Y">>>>,
      <<<<"a","l">>, <<"N","O","T"," ","P","A","Y">>>>,
      <<<<"b","o","b">>, <<"A","C","T","I","V","A","T","E","=","O","k">>>>,
      <<<<"b","o","b">>, <<"a","c","t","i","v","a","t","e","=","n","o","t","-","p","a","y">>>>,
      <<<<"a","l">>, <<"A","C","T","I","V","A","T","E","=","O","k">>>>,
      <<<<"b","o","b">>, <<"A","C","T","I","V","A","T","E","=","C","u","t">>>>,
      <<<<"b","o","b">>, <<"P","a","i","d">>>>,
      <<<<"a","l">>, <<"N","E","W","=","O","k","=","2">>, <<"a","1">>>>,
      <<<<"a","l">>, <<"N","E","W","=","O","k">>, <<" ","B","2"," ">>>>,
      <<<<"a","l">>, <<"N","E","W","=","N","O","T","-","P","A","Y">>, <<"C","3">>>>,
      <<<<"b","o","b">>, <<"N","E","W","=","O","k">>, <<"C","3">>>>,
      <<<<"a","l">>, <<"N","E","W","=","O","k">>>>,
      <<<<"a","l">>, <<"N","E","W","=","O","k">>, <<>>, <<"x">>>>,
      <<<<"a","l">>, <<"n","e","w","=","O","k">>, <<"1",".","1",".","1",".","1">>>>,
      <<<<"b","o","b">>, <<"U","P","D","-","M","A","C","=","O","k">>, <<"B","2">>>>,
      <<<<"b","o","b">>, <<"U","P","D","-","M","A","C","=","O","k">>, <<"a","1">>>>,
      <<<<"b","o","b">>, <<"L","I","M","I","T","=","n","o","t","-","p","a","y">>, <<"5","-","6","-","2","0","2","7">>>>,
      <<<<"b","o","b">>, <<"L","I","M","I","T","=","O","k">>, <<"5","-","6","-","2","0","2","0">>>>,
      <<<<"B","o","b">>, <<"L","I","M","I","T","=","O","k","=","2">>, <<"5","-","6","-","2","0","2","7">>>>,
      <<<<"b","o","b">>, <<"L","I","M","I","T","=","O","k">>, <<"5","-","6","-","2","o","2","7">>>>,
      <<<<"b","o","b">>, <<"L","I","M","I","T","=","O","k">>, <<"3","2","-","6","-","2","0","2","7">>>>,
      <<<<"a","l">>, <<"L","I","M","I","T","=","O","k">>, <<"5","-","6","-","2","0","2","7">>>>,
      <<<<"b","o","b">>, <<"R","E","=","N","A","M","E">>, <<"a","l">>>>,
      <<<<"a","l">>, <<"R","E","=","N","A","M","E">>, <<"A","l">>>>,
      <<<<"a","l">>, <<"R","E","=","N","U","M","B","E","R">>, <<"2">>>>,
      <<<<"b","o","b">>, <<"R","E","=","N","U","M","B","E","R">>, <<"2">>>>,
      <<<<"a","l">>, <<"R","E","N","E","W","=","O","k">>, <<"C","3">>>>,
      <<<<>>, <<>>, <<>>, <<"b","o","b">>, <<"C","U","T">>>>,
      <<<<"a","l">>, <<"C","U","T">>, <<>>, <<"a","l">>, <<"N","E","W","=","O","k">>, <<"C","3">>>> }

InitDevices ==
    { << [id |-> 1, mac |-> <<"B","2">>, type |-> "blocked", comment |-> <<"Z","Z","Z","Z","=","B","l","o","c","k","e","d"," ","u","n","a","u","t","h","o","r","i","z","e","d"," ","7">>],
         [id |-> 2, mac |-> <<"B","2">>, type |-> "blocked", comment |-> <<"B","o","b"," ","@","1">>],
         [id |-> 3, mac |-> <<"A","1">>, type |-> "bypassed", comment |-> <<>>] >>,
      << [id |-> 1, mac |-> <<"A","1">>, type |-> "bypassed", comment |-> <<"b","o","b"," ","@","1">>],
         [id |-> 2, mac |-> <<"b","2">>, type |-> "blocked", comment |-> <<"Z","Z","Z","Z","=","B","l","o","c","k","e","d"," ","u","n","a","u","t","h","o","r","i","z","e","d">>] >>,
      << [id |-> 1, mac |-> <<"B","2">>, type |-> "bypassed", comment |-> <<"b","o","b","b","y","@","1">>],
         [id |-> 2, mac |-> <<"B","2">>, type |-> "blocked", comment |-> <<"Z","Z","Z","Z","=","B","l","o","c","k","e","d"," ","u","n","a","u","t","h","o","r","i","z","e","d">>] >> }

MaxFailures == 1

(* ------------------------------------------------------------------ *)
(* State                                                               *)
(* ------------------------------------------------------------------ *)
VARIABLES
    bindings,       \* the device's /ip/hotspot/ip-binding list, in list order
    nextId,         \* the id the device gives the next binding
    schedules,      \* the device's /system/scheduler list
    nextSched,      \* the id the device gives the next job
    clients_cache,  \* MikrotikManager.clients_cache
    sheet,          \* the data rows of the Payment sheet
    values,         \* the rows process_sheet_data read at the start of the cycle
    phase,          \* "idle" between cycles, "rows" inside the row loop
    bi,             \* index of the building being processed
    ri,             \* index into values of the row being processed
    failures,       \* transport failures injected so far
    engineWrote,    \* the status cells whose content the engine wrote, with the kind of label
    last,           \* what the latest row iteration did, and whether the cycle's
                    \* directory load succeeded
    call            \* the latest call of a function on its own: name, argument, result

vars == <<bindings, nextId, schedules, nextSched, clients_cache, sheet, values,
          phase, bi, ri, failures, engineWrote, last, call>>

Manager == [bindings |-> bindings, cache |-> clients_cache, nextId |-> nextId,
            sched |-> schedules, nextSched |-> nextSched]

NoLast == [kind |-> "none", b |-> 0, row_index |-> 0, client |-> <<>>, status |-> <<>>,
           notes |-> <<>>, admitted |-> FALSE, cmd |-> "", F |-> {}, wasLabel |-> "",
           pre |-> [bindings |-> <<>>, cache |-> <<>>, nextId |-> 0, sched |-> <<>>,
                    nextSched |-> 0],
           post |-> [bindings |-> <<>>, cache |-> <<>>, nextId |-> 0, sched |-> <<>>,
                     nextSched |-> 0],
           writes |-> <<>>, sheetBefore |-> <<>>, loaded |-> TRUE]

\* the sets of failing call sites a step may run under
FailChoices(S) ==
    IF failures < MaxFailures THEN {{}} \cup {{s} : s \in S} ELSE {{}}

NoCall == [fn |-> "", arg |-> <<>>, res |-> <<>>]

Init ==
    /\ bindings \in InitDevices
    /\ nextId = Len(bindings) + 1
    /\ schedules = <<>>
    /\ nextSched = 1
    /\ clients_cache = <<>>
    /\ sheet \in [1..NumRows -> InputRows]
    /\ values = <<>>
    /\ phase = "idle"
    /\ bi = 1
    /\ ri = 1
    /\ failures = 0
    /\ engineWrote = {}
    /\ last = NoLast
    /\ call = NoCall

\* main(): a new cycle. The manager is constructed (its snapshot loaded from
\* the device) and process_sheet_data reads the sheet; a failing connection
\* raises out of the constructor and the cycle ends there.
StartCycle ==
    /\ phase = "idle"
    /\ \E F \in FailChoices({"connect", "load"}) :
        /\ failures' = failures + (IF F = {} THEN 0 ELSE 1)
        /\ last' = [NoLast EXCEPT !.loaded = ("load" \notin F)]
        /\ IF "connect" \in F
           THEN UNCHANGED <<clients_cache, values, phase>>
           ELSE /\ clients_cache' = load_clients(bindings, F)
                /\ values' = ReadValues(sheet)
                /\ phase' = IF ReadValues(sheet) = <<>> \/ Buildings = <<>>
                            THEN "idle" ELSE "rows"
    /\ bi' = 1
    /\ ri' = 1
    /\ UNCHANGED <<bindings, nextId, schedules, nextSched, sheet, engineWrote, call>>

\* the status cell of a building in a spreadsheet row
StatusCellOf(building, row_index) ==
    [col |-> get_column_letter(building.status_col + 2), row |-> row_index + 2]

Admitted(building, row_index, vals) ==
    LET row == vals[row_index + 1]
    IN  /\ Len(row) > building.status_col
        /\ row[building.client_col + 1] # <<>>
        /\ row[building.status_col + 1] # <<>>
        /\ row_filter(row[building.status_col + 1])

CellOr(row, col, default) == IF Len(row) > col THEN row[col + 1] ELSE default

\* the value the writes leave in a cell
StatusWritten(writes, cell) ==
    LET ks == {k \in DOMAIN writes : writes[k].col = cell.col /\ writes[k].row = cell.row}
    IN  writes[CHOOSE k \in ks : \A j \in ks : j <= k].val

\* the kind of label a status write leaves: "notpay" for 'Not Pay', "chosen"
\* for the operator's result label, "fixed" for the engine's own labels
LabelKind(status, val) ==
    IF val = L_NOT_PAY THEN "notpay"
    ELSE IF command_of(status) \in {"New", "UpdMac", "Activate", "Limit"}
            /\ val = label_of(status) THEN "chosen"
    ELSE "fixed"

\* the kind of the label the engine left in a cell, "" when the operator's
\* text is still there
OriginOf(written, cell) ==
    IF \E e \in written : e.col = cell.col /\ e.row = cell.row
    THEN (CHOOSE e \in written : e.col = cell.col /\ e.row = cell.row).by
    ELSE ""

\* the call sites a command's branch can reach
CommandSites(cmd) ==
    CASE cmd = "Cut" -> {"set"}
      [] cmd = "NotPay" -> {"set"}
      [] cmd = "Activate" -> {"set"}
      [] cmd = "Limit" -> {"set", "sched_get", "sched_add", "sched_remove"}
      [] cmd = "New" -> {"findmac", "remove", "add", "load", "lease", "arp"}
      [] cmd = "UpdMac" -> {"findmac", "remove", "set", "load", "lease", "arp"}
      [] cmd = "RenameClient" -> {"set", "load"}
      [] cmd = "RenamePhone" -> {"set", "load"}
      [] OTHER -> {}

SitesOf(building, row_index, vals) ==
    IF Admitted(building, row_index, vals)
    THEN CommandSites(command_of(vals[row_index + 1][building.status_col + 1]))
    ELSE {}

\* one iteration of the row loop, with every call it makes
ProcessRow ==
    /\ phase = "rows"
    /\ \E F \in FailChoices(SitesOf(Buildings[bi], ri - 1, values)) :
      \E out \in {process_row(Manager, Buildings[bi], ri - 1, values, F)} :
        LET building == Buildings[bi]
            row_index == ri - 1
            row == values[ri]
            cell == StatusCellOf(building, row_index)
            wroteStatus == \E k \in DOMAIN out.writes :
                              out.writes[k].col = cell.col /\ out.writes[k].row = cell.row
        IN  /\ bindings' = out.m.bindings
            /\ nextId' = out.m.nextId
            /\ schedules' = out.m.sched
            /\ nextSched' = out.m.nextSched
            /\ clients_cache' = out.m.cache
            /\ sheet' = ApplyWrites(sheet, out.writes)
            /\ engineWrote' =
                 IF wroteStatus
                 THEN {e \in engineWrote : e.col # cell.col \/ e.row # cell.row}
                      \cup {[col |-> cell.col, row |-> cell.row,
                              by |-> LabelKind(row[building.status_col + 1],
                                               StatusWritten(out.writes, cell))]}
                 ELSE engineWrote
            /\ failures' = failures + (IF F = {} THEN 0 ELSE 1)
            /\ last' = [kind |-> "row", b |-> bi, row_index |-> row_index,
                        client |-> CellOr(row, building.client_col, <<>>),
                        status |-> CellOr(row, building.status_col, <<>>),
                        notes |-> IF Len(row) > building.notes_col
                                  THEN <<row[building.notes_col + 1]>> ELSE <<>>,
                        admitted |-> Admitted(building, row_index, values),
                        cmd |-> IF Admitted(building, row_index, values)
                                THEN command_of(row[building.status_col + 1]) ELSE "",
                        F |-> F,
                        wasLabel |-> OriginOf(engineWrote, cell),
                        pre |-> Manager, post |-> out.m,
                        writes |-> out.writes, sheetBefore |-> sheet,
                        loaded |-> last.loaded]
    /\ values' = values
    /\ call' = call
    /\ LET np == next_position(bi, ri, Len(values), Len(Buildings),
                                row_raises(Buildings[bi], ri - 1, values))
       IN  /\ phase' = np.phase
           /\ bi' = np.bi
           /\ ri' = np.ri

Next == StartCycle \/ ProcessRow

Spec == Init /\ [][Next]_vars

(* ------------------------------------------------------------------ *)
(* The functions on their own: a behaviour applies one function of the *)
(* manager to one argument and records the result                      *)
(* ------------------------------------------------------------------ *)
DayTexts == {<<"4">>, <<"5">>, <<"6">>, <<"0","5">>, <<"2","9">>, <<"3","1">>}

MonthTexts == {<<"1","0">>, <<"1","1">>, <<"1","2">>, <<"2">>, <<"0","2">>, <<"4">>}

YearTexts == {<<"2","0","2","5">>, <<"2","0","2","6">>, <<"2","0","2","7">>}

\* the notes texts a date is written as
DateTexts ==
    {d \o DASH \o mo \o DASH \o y : d \in DayTexts, mo \in MonthTexts, y \in YearTexts}

NameTexts == {<<"b","o","b">>, <<"b","o","b"," ">>, <<" ","a","l">>, <<"a"," ","b">>, <<"A","l">>, <<>>}

PhoneTexts == {<<"1">>, <<"1"," ">>, <<" ","2">>, <<>>, <<"1"," ","@","2">>, <<"0"," ","9">>}

\* comments of the form '<name> @<phone>'
CommentTexts == {n \o SEP \o ph : n \in NameTexts, ph \in PhoneTexts}

\* a manager whose device holds no binding and no job
EmptyManager == [bindings |-> <<>>, cache |-> <<>>, nextId |-> 1, sched |-> <<>>, nextSched |-> 1]

\* a manager constructed on a device that holds one binding with a comment
ManagerOf(comment) ==
    LET bs == << [id |-> 1, mac |-> <<"A","1">>, type |-> TYPE_BYPASSED, comment |-> comment] >>
    IN  [EmptyManager EXCEPT !.bindings = bs, !.cache = load_clients(bs, {}), !.nextId = 2]

FnInit ==
    /\ bindings = <<>>
    /\ nextId = 1
    /\ schedules = <<>>
    /\ nextSched = 1
    /\ clients_cache = <<>>
    /\ sheet = <<>>
    /\ values = <<>>
    /\ phase = "fn"
    /\ bi = 1
    /\ ri = 1
    /\ failures = 0
    /\ engineWrote = {}
    /\ last = NoLast
    /\ call = NoCall

FnFrame == UNCHANGED <<bindings, nextId, schedules, nextSched, clients_cache, sheet, values,
                       phase, bi, ri, failures, engineWrote, last>>

\* schedule_block_client(client_name, mac_address, block_date): accepted or not
CallScheduleBlock ==
    /\ call = NoCall
    /\ \E text \in DateTexts :
          call' = [fn |-> "schedule_block_client", arg |-> text,
                   res |-> schedule_block_client(EmptyManager, <<"b","o","b">>, <<"A","1">>, text, {}).ok]
    /\ FnFrame

\* the name the directory extracts from a comment and the phone
\* get_client_phone returns for that name
CallCommentParts ==
    /\ call = NoCall
    /\ \E comment \in CommentTexts :
          call' = [fn |-> "comment_parts", arg |-> comment,
                   res |-> [name |-> extract_client_name(comment),
                            phone |-> get_client_phone(ManagerOf(comment),
                                                       extract_client_name(comment))]]
    /\ FnFrame

\* the groups the address texts are made of
OctetTexts == {<<"0">>, <<"5">>, <<"2","5","5">>, <<"2","5","6">>, <<"9","9","9">>, <<"1","0","0","0">>, <<>>, <<"A">>}

LastOctetTexts == {<<"5">>, <<"2","5","6">>, <<"5",LF>>}

\* texts handed to is_ip_address: four groups, fewer, more, a MAC address
AddressTexts ==
    {a \o DOT \o b \o DOT \o <<"1">> \o DOT \o d :
        a \in OctetTexts, b \in OctetTexts, d \in LastOctetTexts}
    \cup {<<"1","9","2",".","1","6","8",".","1",".","5">>,
           <<"A","A",":","B","B",":","C","C",":","D","D",":","E","E",":","F","F">>,
           <<"9","9","9",".","1",".","1",".","1">>,
           <<"1",".","1",".","1">>,
           <<"1",".","1",".","1",".","1",".","1">>,
           <<>>}

\* is_ip_address(identifier)
CallIsIpAddress ==
    /\ call = NoCall
    /\ \E text \in AddressTexts :
          call' = [fn |-> "is_ip_address", arg |-> text, res |-> is_ip_address(text)]
    /\ FnFrame

\* the comments of the bindings a directory is loaded from
DirectoryComments == {<<"b","o","b"," ","@","1">>, <<"b","o","b">>, <<"B","o","b">>, <<"b","o","b","b","y">>, <<>>}

\* binding lists of three bindings, in the device's list order
DirectoryLists ==
    { << [id |-> 1, mac |-> <<"A","1">>, type |-> TYPE_BYPASSED, comment |-> c1],
         [id |-> 2, mac |-> <<"B","2">>, type |-> TYPE_BLOCKED, comment |-> c2],
         [id |-> 3, mac |-> <<"C","3">>, type |-> TYPE_BYPASSED, comment |-> c3] >> :
        c1 \in DirectoryComments, c2 \in DirectoryComments, c3 \in DirectoryComments }

\* the names handed to find_client_in_ip_bindings
LookupNames == {<<"b","o","b">>, <<" ","b","o","b"," ">>, <<"B","O","B">>, <<"o","b">>, <<"x">>, <<>>, <<"b","o","b","b","y">>}

\* _load_clients() on a device that holds a binding list
CallLoadClients ==
    /\ call = NoCall
    /\ \E bs \in DirectoryLists :
          call' = [fn |-> "load_clients", arg |-> bs, res |-> load_clients(bs, {})]
    /\ FnFrame

\* find_client_in_ip_bindings(client_name) of a manager constructed on a
\* device that holds a binding list
CallFindClient ==
    /\ call = NoCall
    /\ \E bs \in DirectoryLists, name \in LookupNames :
          call' = [fn |-> "find_client_in_ip_bindings",
                   arg |-> [bindings |-> bs, client_name |-> name],
                   res |-> find_client_in_ip_bindings(load_clients(bs, {}), name)]
    /\ FnFrame

\* status texts an operator or the engine leaves in a status cell
StatusTexts ==
    {<<"C","U","T">>, <<"c","u","t">>, <<"C","u","t">>,
     <<"C","U","T"," ">>, <<"C","U","T","S">>, <<"x","C","U","T">>,
     <<"N","O","T"," ","P","A","Y">>, <<"n","o","t"," ","p","a","y">>, <<"N","o","t"," ","P","a","y">>,
     <<"N","O","T"," ","P","A","Y","S">>, <<"N","O","T","-","P","A","Y">>, <<"N","O","T","P","A","Y">>,
     <<"L","I","M","I","T","=","O","k">>, <<"l","i","m","i","t","=","O","k">>, <<"L","I","M","I","T">>,
     <<"L","I","M","I","T","=">>, <<"N","E","W","=","O","k">>, <<"N","e","w","=","O","k">>,
     <<"N","E","W">>, <<"R","E","N","E","W","=","O","k">>, <<"N","E","W","=","C","U","T">>,
     <<"U","P","D","-","M","A","C","=","O","k">>, <<"u","p","d","-","m","a","c","=","O","k">>, <<"U","P","D","-","M","A","C">>,
     <<"U","P","D","M","A","C","=","O","k">>, <<"A","C","T","I","V","A","T","E","=","O","k">>, <<"A","c","t","i","v","a","t","e","=","N","o","t","-","P","a","y">>,
     <<"A","C","T","I","V","A","T","E">>, <<"R","E","=","N","A","M","E">>, <<"r","e","=","n","a","m","e">>,
     <<"R","E","=","N","A","M","E","=","x">>, <<"R","E","=","N","A","M","E","S">>, <<"R","E","=","N","U","M","B","E","R">>,
     <<"R","e","=","N","u","m","b","e","r">>, <<"R","E","=","N","U","M","B","E","R","S">>, <<"R","E","=","N">>,
     <<"R","E","=">>, <<"P","a","i","d">>, <<"B","L","O","C","K">>,
     <<"W","a","i","t","i","n","g">>, <<"O","l","d","-","D","a","t","e">>, <<"W","r","o","n","g","-","M","A","C">>,
     <<"O","k">>, <<"=">>, <<>>}

\* a status text in the row filter of process_sheet_data and in the branch
\* chain of process_client
CallDispatch ==
    /\ call = NoCall
    /\ \E status \in StatusTexts :
          call' = [fn |-> "dispatch", arg |-> status,
                   res |-> [admitted |-> row_filter(status), command |-> command_of(status)]]
    /\ FnFrame

\* the column indices handed to get_column_letter
MaxColumn == 703

\* get_column_letter(index)
CallColumnLetter ==
    /\ call = NoCall
    /\ \E index \in 0..MaxColumn :
          call' = [fn |-> "get_column_letter", arg |-> index, res |-> get_column_letter(index)]
    /\ FnFrame

FnNext ==
    \/ CallDispatch
    \/ CallColumnLetter
    \/ CallScheduleBlock
    \/ CallCommentParts
    \/ CallIsIpAddress
    \/ CallLoadClients
    \/ CallFindClient

FnSpec == FnInit /\ [][FnNext]_vars

(* ------------------------------------------------------------------ *)
(* Vocabulary of the properties                                        *)
(* ------------------------------------------------------------------ *)
\* a binding of an authorized client: its comment does not start with the marker
Authorized(b) == ~StartsWith(b.comment, MARKER)

\* MAC addresses are the same address when they agree up to letter case
SameMac(a, b) == Lower(a) = Lower(b)

\* every MAC address is held by at most one authorized binding
AuthUnique(bs) ==
    \A i, j \in DOMAIN bs :
        (i # j /\ SameMac(bs[i].mac, bs[j].mac)) => ~(Authorized(bs[i]) /\ Authorized(bs[j]))

Ids(bs) == {bs[i].id : i \in DOMAIN bs}

ById(bs, id) == bs[CHOOSE i \in DOMAIN bs : bs[i].id = id]

\* the latest step ran a row the filter admitted, with this command
Ran(cmd) == last.kind = "row" /\ last.admitted /\ last.cmd = cmd

\* no device call of the latest row raised
FaultFree == last.F = {}

\* the notes cell of the latest row holds text
HasNotes == last.notes # <<>> /\ last.notes[1] # <<>>

\* the identifier a New or UpdMac row passes on
Identifier == Strip(last.notes[1])

\* the status write of the latest row, for a label
WroteOnly(label) ==
    last.writes = <<StatusWrite(last.row_index, label, Buildings[last.b].status_col)>>

\* the record the latest row's client name resolved to when the row started
Resolved == find_client_in_ip_bindings(last.pre.cache, last.client)

(* ------------------------------------------------------------------ *)
(* C1                                                                  *)
(* ------------------------------------------------------------------ *)
\* C1: every initial device state has each MAC address held by at most one
\* authorized binding, and in every state reached without a transport
\* failure each MAC address is still held by at most one authorized binding
\* (MAC addresses compared case-insensitively).
C1_AuthorizedMacUnique == failures = 0 => AuthUnique(bindings)

(* ------------------------------------------------------------------ *)
(* C2                                                                  *)
(* ------------------------------------------------------------------ *)
\* a New row whose notes hold a MAC address that an authorized binding holds
C2_Case ==
    /\ Ran("New") /\ HasNotes /\ ~is_ip_address(Identifier)
    /\ \E i \in DOMAIN last.pre.bindings :
          /\ SameMac(last.pre.bindings[i].mac, Identifier)
          /\ Authorized(last.pre.bindings[i])

\* C2: when a New row supplies a MAC address that an authorized binding
\* already holds and no device call fails, the binding list is left as it
\* was and the status cell becomes 'Already-Exists'.
C2_ConflictLeavesDeviceAlone ==
    (C2_Case /\ FaultFree) =>
        /\ last.post.bindings = last.pre.bindings
        /\ WroteOnly(L_ALREADY_EXISTS)

(* ------------------------------------------------------------------ *)
(* C3                                                                  *)
(* ------------------------------------------------------------------ *)
\* the bindings of a list that hold a MAC address, as indices
Holders(bs, mac) == {i \in DOMAIN bs : SameMac(bs[i].mac, mac)}

\* a New row whose notes hold a MAC address that a placeholder binding holds
C3_Case ==
    /\ Ran("New") /\ HasNotes /\ ~is_ip_address(Identifier)
    /\ \E i \in Holders(last.pre.bindings, Identifier) : ~Authorized(last.pre.bindings[i])

\* the label a New, UpdMac or Activate row shows on success: the text between
\* the first '=' and the next one, with NOT-PAY shown as 'Not Pay'
DisplayLabel(status) ==
    LET rest == SubSeq(status, FindAt(status, EQ) + 1, Len(status))
        l == IF FindAt(rest, EQ) = 0 THEN rest ELSE SubSeq(rest, 1, FindAt(rest, EQ) - 1)
    IN  IF Upper(l) = NOT_PAY_ALIAS THEN L_NOT_PAY ELSE l

\* the binding the latest row created: the one whose id the device had not given out
Created == {i \in DOMAIN last.post.bindings : last.post.bindings[i].id \notin Ids(last.pre.bindings)}

\* every entry of a directory snapshot is a record of the binding list
FreshSnapshot(cache, bs) ==
    \A k \in DOMAIN cache : cache[k].val.id \in Ids(bs) /\ cache[k].val = ById(bs, cache[k].val.id)

\* C3 as stated: whenever a New row supplies a MAC address that a placeholder
\* binding holds (and no device call fails), every placeholder holding it is
\* deleted, a record with that MAC and the client's name is created, and the
\* status cell shows the success label.
C3_PlaceholderAlwaysReplaced ==
    (C3_Case /\ FaultFree) =>
        /\ \A i \in Holders(last.pre.bindings, Identifier) :
              ~Authorized(last.pre.bindings[i]) => last.pre.bindings[i].id \notin Ids(last.post.bindings)
        /\ \E i \in Created : /\ SameMac(last.post.bindings[i].mac, Identifier)
                              /\ last.post.bindings[i].comment = last.client
        /\ WroteOnly(DisplayLabel(last.status))

\* the case of the amended C3: the client name does not resolve, only
\* placeholder bindings hold the MAC address, no device call fails
C3_AmendedCase ==
    /\ C3_Case /\ FaultFree
    /\ Resolved = <<>>
    /\ \A i \in Holders(last.pre.bindings, Identifier) : ~Authorized(last.pre.bindings[i])

\* C3 (amended): when a New row whose client name does not resolve supplies a
\* MAC address held by a placeholder binding and by no authorized binding,
\* and no device call fails, the first placeholder holding it is deleted,
\* every other binding is kept, the directory is rebuilt from the device
\* (it holds the new record and no deleted one), one record with that MAC,
\* the client's name as comment and the bypassed type is created, and the
\* status cell shows the success label, not a failure code.
C3_PlaceholderReplaced ==
    C3_AmendedCase =>
        LET pre == last.pre.bindings
            post == last.post.bindings
            hs == Holders(pre, Identifier)
            first == CHOOSE i \in hs : \A j \in hs : i <= j
        IN  /\ pre[first].id \notin Ids(post)
            /\ \A i \in DOMAIN pre : i # first => pre[i] \in {post[k] : k \in DOMAIN post}
            /\ Cardinality(Created) = 1
            /\ \A i \in Created :
                  /\ post[i].mac = Identifier
                  /\ post[i].comment = last.client
                  /\ post[i].type = TYPE_BYPASSED
                  /\ \E k \in DOMAIN last.post.cache : last.post.cache[k].val = post[i]
            /\ FreshSnapshot(last.post.cache, post)
            /\ WroteOnly(DisplayLabel(last.status))
            /\ bindings = post

C3_Witness ==
    /\ C3_AmendedCase
    /\ Cardinality(Created) = 1
    /\ Len(last.post.bindings) = Len(last.pre.bindings)

(* ------------------------------------------------------------------ *)
(* C4                                                                  *)
(* ------------------------------------------------------------------ *)
\* a New row whose client name does not resolve and whose notes hold a MAC
\* address that no binding holds
C4_Case ==
    /\ Ran("New") /\ HasNotes /\ ~is_ip_address(Identifier)
    /\ Resolved = <<>>
    /\ Holders(last.pre.bindings, Identifier) = {}

\* the device gained exactly one binding, Active, with the MAC and the client
\* name as comment, and the directory holds it
C4_Gained ==
    LET new == [id |-> last.pre.nextId, mac |-> Identifier, type |-> TYPE_BYPASSED,
                comment |-> last.client]
    IN  /\ last.post.bindings = Append(last.pre.bindings, new)
        /\ \E k \in DOMAIN last.post.cache : last.post.cache[k].val = new
        /\ bindings = last.post.bindings

\* the whole text after the first '=' of a status
SuffixAfterEq(status) == SubSeq(status, FindAt(status, EQ) + 1, Len(status))

C5_CreatedOnlyWhenFree ==
    (last.kind = "row" /\ failures = 0 /\ Created # {}) =>
        /\ Ran("New")
        /\ Resolved = <<>>
        /\ \A i \in Created : \A k \in DOMAIN last.post.bindings :
              (k # i /\ SameMac(last.post.bindings[k].mac, last.post.bindings[i].mac))
                 => ~Authorized(last.post.bindings[k])

(* ------------------------------------------------------------------ *)
(* C6                                                                  *)
(* ------------------------------------------------------------------ *)
\* the bindings the latest row removed from the device
Removed == {i \in DOMAIN last.pre.bindings : last.pre.bindings[i].id \notin Ids(last.post.bindings)}

\* C6: a row removes a binding only if the binding's comment starts with the
\* marker, the row is a New or UpdMac row, and the binding's MAC address is
\* the one the row binds (the same address, letter case aside); the device's
\* list changes only by what rows do to it.
C6_OnlyPlaceholdersRemoved ==
    /\ last.kind = "row" => bindings = last.post.bindings
    /\ last.kind = "row" =>
         \A i \in Removed :
            /\ StartsWith(last.pre.bindings[i].comment, MARKER)
            /\ last.admitted /\ last.cmd \in {"New", "UpdMac"}
            /\ HasNotes
            /\ resolve_identifier(Identifier, last.F) # <<>>
            /\ SameMac(last.pre.bindings[i].mac, resolve_identifier(Identifier, last.F)[1])

C6_Witness == Ran("UpdMac") /\ Removed # {} /\ last.post.bindings # <<>>

(* ------------------------------------------------------------------ *)
(* C7                                                                  *)
(* ------------------------------------------------------------------ *)
\* the latest row was read from a status cell that still holds the label the
\* engine wrote there in an earlier cycle
RereadsLabel == last.kind = "row" /\ last.wasLabel # ""

\* the latest row did nothing: no write, the device and the directory as before
DidNothing ==
    /\ last.writes = <<>>
    /\ last.post = last.pre
    /\ sheet = last.sheetBefore
    /\ bindings = last.pre.bindings /\ schedules = last.pre.sched

\* C7 as stated: re-reading any label the engine wrote performs no device
\* mutation and no write.
C7_EveryLabelIsTerminal == RereadsLabel => DidNothing

\* C7 (amended): re-reading one of the engine's own labels other than
\* 'Not Pay' ('BLOCK', 'Waiting', 'Old-Date', the failure codes), or an
\* operator-chosen result label that the row filter does not admit, performs
\* no device mutation and no write; a cell holding 'Not Pay' is admitted again
\* as a NotPay command.
C7_TerminalLabels ==
    /\ (RereadsLabel /\ last.wasLabel = "fixed") => (~last.admitted /\ DidNothing)
    /\ (RereadsLabel /\ last.wasLabel = "chosen" /\ ~row_filter(last.status)) => DidNothing
    /\ (RereadsLabel /\ last.wasLabel = "notpay") =>
          (last.status = L_NOT_PAY /\ Ran("NotPay"))

C7_Witness == RereadsLabel /\ last.wasLabel = "fixed" /\ last.status = L_BLOCK /\ DidNothing

(* ------------------------------------------------------------------ *)
(* C8                                                                  *)
(* ------------------------------------------------------------------ *)
\* a binding list with the state of one record set
WithType(bs, id, type) ==
    [i \in DOMAIN bs |-> IF bs[i].id = id THEN [bs[i] EXCEPT !.type = type] ELSE bs[i]]

\* the status cell of the latest row as the sheet holds it now
StatusCellNow == sheet[last.row_index + 1][Buildings[last.b].status_col + 1]

\* C8: for a Cut row, if the client name resolves to a record and the device
\* update does not fail, that record's state is set to blocked, nothing else
\* on the device or in the directory changes, and 'BLOCK' is the one write;
\* if the name does not resolve or the update fails, nothing is written,
\* nothing changes, and the status cell still holds the Cut command.
C8_Cut ==
    Ran("Cut") =>
        IF Resolved # <<>> /\ "set" \notin last.F
        THEN /\ last.post = [last.pre EXCEPT
                                !.bindings = WithType(last.pre.bindings, Resolved[1].id, TYPE_BLOCKED)]
             /\ ById(last.post.bindings, Resolved[1].id).type = TYPE_BLOCKED
             /\ bindings = last.post.bindings
             /\ WroteOnly(L_BLOCK)
             /\ StatusCellNow = L_BLOCK
        ELSE /\ DidNothing
             /\ StatusCellNow = last.status
             /\ command_of(StatusCellNow) = "Cut"

C8_Witness ==
    /\ Ran("Cut") /\ Resolved # <<>> /\ FaultFree
    /\ ById(last.pre.bindings, Resolved[1].id).type = TYPE_BYPASSED
    /\ ById(bindings, Resolved[1].id).type = TYPE_BLOCKED

C8_WitnessFailure == Ran("Cut") /\ Resolved # <<>> /\ "set" \in last.F /\ DidNothing

(* ------------------------------------------------------------------ *)
(* C9                                                                  *)
(* ------------------------------------------------------------------ *)
\* the device's record of the latest row's client when the row started
DeviceRecord == ById(last.pre.bindings, Resolved[1].id)

\* C9: for a NotPay row with no device call failing: if the client's binding
\* on the device is bypassed, 'Waiting' is written and the device is not
\* changed; if it is blocked, it is set to bypassed and 'Waiting' is written;
\* if the client is not found, nothing is written and nothing changes.
C9_NotPay ==
    (Ran("NotPay") /\ FaultFree) =>
        IF Resolved = <<>> THEN DidNothing
        ELSE IF DeviceRecord.type = TYPE_BYPASSED
             THEN last.post.bindings = last.pre.bindings /\ WroteOnly(L_WAITING)
        ELSE /\ last.post.bindings = WithType(last.pre.bindings, Resolved[1].id, TYPE_BYPASSED)
             /\ WroteOnly(L_WAITING)

(* ------------------------------------------------------------------ *)
(* C10                                                                 *)
(* ------------------------------------------------------------------ *)
\* C10: for an Activate=L row with no device call failing: if the client's
\* binding on the device is bypassed, the label is written and the device is
\* not changed; otherwise the binding is set to bypassed and the label is
\* written; if the client is not found, nothing is written.  The label is
\* read as the display label of L.
C10_Activate ==
    (Ran("Activate") /\ FaultFree) =>
        IF Resolved = <<>> THEN DidNothing
        ELSE IF DeviceRecord.type = TYPE_BYPASSED
             THEN last.post.bindings = last.pre.bindings /\ WroteOnly(DisplayLabel(last.status))
        ELSE /\ last.post.bindings = WithType(last.pre.bindings, Resolved[1].id, TYPE_BYPASSED)
             /\ WroteOnly(DisplayLabel(last.status))

(* ------------------------------------------------------------------ *)
(* Vocabulary of the Limit properties                                  *)
(* ------------------------------------------------------------------ *)
\* the notes text of the latest row, as the Limit branch reads it (not stripped)
DateText == last.notes[1]

\* a D-M-YYYY text as the specification defines it: three '-'-separated
\* numeric parts, day in 1..31, month in 1..12
ValidDMY(text) ==
    LET parts == Split(text, DASH)
    IN  /\ Len(parts) = 3
        /\ \A i \in 1..3 : parts[i] # <<>> /\ AllDigits(parts[i])
        /\ Len(parts[1]) \in 1..2 /\ Len(parts[2]) \in 1..2 /\ Len(parts[3]) = 4
        /\ ParseInt(parts[1]) \in 1..31
        /\ ParseInt(parts[2]) \in 1..12

DayOf(text) == ParseInt(Split(text, DASH)[1])
MonthOf(text) == ParseInt(Split(text, DASH)[2])
YearOf(text) == ParseInt(Split(text, DASH)[3])

\* the days of a month of the Gregorian calendar
MonthLength(y, mo) ==
    CASE mo \in {1, 3, 5, 7, 8, 10, 12} -> 31
      [] mo \in {4, 6, 9, 11} -> 30
      [] OTHER -> IF (y % 4 = 0 /\ y % 100 # 0) \/ y % 400 = 0 THEN 29 ELSE 28

\* a valid D-M-YYYY text that names a day of the calendar
CalendarDate(text) ==
    /\ ValidDMY(text)
    /\ YearOf(text) >= 1
    /\ DayOf(text) <= MonthLength(YearOf(text), MonthOf(text))

\* calendar days in their order
DayNumber(y, mo, d) == y * 10000 + mo * 100 + d

\* the calendar date of a text is strictly after the current date
StrictlyFuture(text) ==
    /\ CalendarDate(text)
    /\ DayNumber(YearOf(text), MonthOf(text), DayOf(text))
         > DayNumber(Today.year, Today.month, Today.day)

\* the jobs of a scheduler list that the latest row created
NewJobs(sched) == {k \in DOMAIN sched : sched[k].id = last.pre.nextSched}

\* the latest row created a job named after its client, for the client's MAC
JobCreated ==
    /\ Cardinality(NewJobs(last.post.sched)) = 1
    /\ \A k \in NewJobs(last.post.sched) :
          /\ last.post.sched[k].name = last.client
          /\ last.post.sched[k].mac = Resolved[1].mac
    /\ schedules = last.post.sched

\* the text of a status between its first '=' and the next one
FirstPiece(status) ==
    LET rest == SubSeq(status, FindAt(status, EQ) + 1, Len(status))
    IN  IF FindAt(rest, EQ) = 0 THEN rest ELSE SubSeq(rest, 1, FindAt(rest, EQ) - 1)

(* ------------------------------------------------------------------ *)
(* C11                                                                 *)
(* ------------------------------------------------------------------ *)
\* a Limit row whose notes hold a valid date strictly in the future and whose
\* client resolves to a record with a MAC
C11_Case ==
    /\ Ran("Limit") /\ HasNotes
    /\ StrictlyFuture(DateText)
    /\ Resolved # <<>> /\ Resolved[1].mac # <<>>

\* what a Limit row of C11_Case does, for the label it writes on success: the
\* job first, then the activation, then the label
C11_Order(label) ==
    /\ FaultFree =>
          /\ JobCreated
          /\ last.post.bindings = WithType(last.pre.bindings, Resolved[1].id, TYPE_BYPASSED)
          /\ ById(bindings, Resolved[1].id).type = TYPE_BYPASSED
          /\ WroteOnly(label)
    \* the scheduling failed: no activation, no label
    /\ ~JobCreated =>
          /\ last.post.bindings = last.pre.bindings
          /\ ~WroteOnly(label)
    \* the activation failed: the job is there, the label is not
    /\ "set" \in last.F =>
          /\ JobCreated
          /\ last.post.bindings = last.pre.bindings
          /\ last.writes = <<>>
    /\ WroteOnly(label) => JobCreated

C11_WitnessActivationFailed == C11_Case /\ "set" \in last.F /\ JobCreated /\ last.writes = <<>>

(* ------------------------------------------------------------------ *)
(* C12                                                                 *)
(* ------------------------------------------------------------------ *)
\* the latest row's client resolves to a record with a MAC
HasMac == Resolved # <<>> /\ Resolved[1].mac # <<>>

\* a Limit row of a client with a MAC whose notes hold a calendar date that is
\* not strictly after the current date
C12_Case ==
    /\ Ran("Limit") /\ HasNotes /\ HasMac
    /\ CalendarDate(DateText) /\ ~StrictlyFuture(DateText)

\* the latest row left the scheduler and the bindings as they were and wrote 'Old-Date'
C12_Rejected ==
    /\ last.post.sched = last.pre.sched /\ schedules = last.pre.sched
    /\ last.post.bindings = last.pre.bindings /\ bindings = last.pre.bindings
    /\ WroteOnly(L_OLD_DATE)

PassesFormat(text) ==
    LET parts == Split(text, DASH)
    IN  /\ Len(parts) = 3
        /\ Len(parts[1]) \in 1..2 /\ AllDigits(parts[1]) /\ ParseInt(parts[1]) \in 1..31
        /\ Len(parts[2]) \in 1..2 /\ AllDigits(parts[2]) /\ ParseInt(parts[2]) \in 1..12
        /\ Len(parts[3]) = 4

NotesText == IF last.notes = <<>> THEN <<>> ELSE last.notes[1]

\* the latest row wrote nothing and left the scheduler and the bindings alone
C13_Untouched ==
    /\ last.writes = <<>> /\ sheet = last.sheetBefore
    /\ last.post.sched = last.pre.sched /\ schedules = last.pre.sched
    /\ last.post.bindings = last.pre.bindings /\ bindings = last.pre.bindings

\* C13: a Limit row whose notes are not a valid D-M-YYYY date (not three
\* parts, a part that is not a number, a day outside 1..31, a month outside
\* 1..12) or whose client has no resolvable MAC writes nothing, creates and
\* deletes no job and changes no binding.
C13_InvalidLimitIgnored ==
    (Ran("Limit") /\ (~ValidDMY(NotesText) \/ ~HasMac)) => C13_Untouched

(* ------------------------------------------------------------------ *)
(* C14                                                                 *)
(* ------------------------------------------------------------------ *)
\* the record a job's name stands for, in a directory built from the device now
JobClient(job) == find_client_in_ip_bindings(load_clients(bindings, {}), job.name)

\* C14: in every state reached without a transport failure the device holds
\* at most one schedule job per client: no two jobs whose names resolve to the
\* same record.
C14_OneJobPerClient ==
    failures = 0 =>
        \A i, j \in DOMAIN schedules :
            (i # j /\ JobClient(schedules[i]) # <<>> /\ JobClient(schedules[j]) # <<>>)
               => JobClient(schedules[i])[1].id # JobClient(schedules[j])[1].id

(* ------------------------------------------------------------------ *)
(* C15                                                                 *)
(* ------------------------------------------------------------------ *)
\* C15: schedule_block_client accepts a date text exactly when it names a
\* calendar date strictly after the current date: the current date and every
\* earlier date are rejected, every later date is accepted.
C15_AcceptsExactlyFutureDates ==
    call.fn = "schedule_block_client" => (call.res <=> StrictlyFuture(call.arg))

\* the day after the current date is accepted
C15_Witness ==
    /\ call.fn = "schedule_block_client"
    /\ DayNumber(YearOf(call.arg), MonthOf(call.arg), DayOf(call.arg))
         = DayNumber(Today.year, Today.month, Today.day) + 1
    /\ call.res

\* the current date is rejected
C15_WitnessToday ==
    /\ call.fn = "schedule_block_client"
    /\ DayNumber(YearOf(call.arg), MonthOf(call.arg), DayOf(call.arg))
         = DayNumber(Today.year, Today.month, Today.day)
    /\ ~call.res

(* ------------------------------------------------------------------ *)
(* C20                                                                 *)
(* ------------------------------------------------------------------ *)
\* the extracted name and the extracted phone of the latest call, joined by ' @'
Rejoined == call.res.name \o SEP \o call.res.phone

\* C20 as stated: for every comment '<name> @<phone>' the extracted name
\* joined with ' @' and the extracted phone is the comment.
C20_RoundTripAlways == call.fn = "comment_parts" => Rejoined = call.arg

\* a text without leading or trailing whitespace
Trimmed(s) == Strip(s) = s

\* C20 (amended): for every comment '<name> @<phone>', the extracted name
\* joined with ' @' and the extracted phone is '<name> @<phone>' with the
\* whitespace around the name and around the phone removed; it is the original
\* comment exactly when neither the name nor the phone starts or ends with
\* whitespace.
C20_RoundTripTrimmed ==
    call.fn = "comment_parts" =>
        \A n \in NameTexts, ph \in PhoneTexts :
            call.arg = n \o SEP \o ph =>
                /\ call.res.name = Strip(n)
                /\ call.res.phone = Strip(ph)
                /\ Rejoined = Strip(n) \o SEP \o Strip(ph)
                /\ (Rejoined = call.arg) <=> (Trimmed(n) /\ Trimmed(ph))

C20_Witness ==
    /\ call.fn = "comment_parts"
    /\ \E n \in NameTexts, ph \in PhoneTexts :
          /\ call.arg = n \o SEP \o ph
          /\ n # <<>> /\ ph # <<>> /\ Trimmed(n) /\ Trimmed(ph)
          /\ Contains(ph, SEP)
    /\ Rejoined = call.arg

(* ------------------------------------------------------------------ *)
(* C16                                                                 *)
(* ------------------------------------------------------------------ *)
\* the labels New and UpdMac write when they fail
FailureCodes ==
    {L_NO_MAC, L_CLIENT_NOT_FOUND, L_IP_NOT_FOUND, L_ALREADY_EXISTS, L_DELETE_FAILED, L_WRONG_MAC}

\* the latest row wrote one status and it is not a failure code
Succeeded ==
    /\ Len(last.writes) = 1
    /\ last.writes[1].val \notin FailureCodes

\* the MAC address the latest New or UpdMac row binds
BoundMac == resolve_identifier(Identifier, last.F)[1]

\* the record of the latest row's client on the device after the row
DeviceRecordAfter == ById(last.post.bindings, Resolved[1].id)

\* C16: a successful UpdMac row with no device call failing leaves the
\* client's record with the new MAC and Active, whether the device held it
\* Blocked or Active before, and writes the label; a MAC the client's own
\* record already holds is not a conflict.
C16_UpdMac ==
    /\ (Ran("UpdMac") /\ HasNotes /\ FaultFree /\ Succeeded) =>
          /\ Resolved # <<>>
          /\ DeviceRecordAfter.mac = BoundMac
          /\ DeviceRecord.type \in {TYPE_BLOCKED, TYPE_BYPASSED}
                => DeviceRecordAfter.type = TYPE_BYPASSED
          /\ DeviceRecordAfter.comment = DeviceRecord.comment
          /\ WroteOnly(DisplayLabel(last.status))
    /\ (Ran("UpdMac") /\ HasNotes /\ FaultFree /\ Resolved # <<>>
          /\ ~is_ip_address(Identifier) /\ SameMac(DeviceRecord.mac, Identifier)) => Succeeded

(* ------------------------------------------------------------------ *)
(* C17                                                                 *)
(* ------------------------------------------------------------------ *)
\* C17: a New or UpdMac row whose notes cell is empty, or that has no notes
\* cell at all, writes 'NO-MAC' and adds, changes and removes no binding.
C17_EmptyNotesWriteNoMac ==
    ((Ran("New") \/ Ran("UpdMac")) /\ NotesText = <<>>) =>
        /\ WroteOnly(L_NO_MAC)
        /\ last.post.bindings = last.pre.bindings

(* ------------------------------------------------------------------ *)
(* Vocabulary of the rename properties                                 *)
(* ------------------------------------------------------------------ *)
\* the name and phone segments of a comment around the separator ' @'
HasPhoneSegment(c) == Contains(c, SEP)

PhoneSegment(c) == Split1(c, SEP)[2]

NameSegment(c) == Split1(c, SEP)[1]

\* the segments as the rename operations cut them: at the first ' @', and at
\* the first '@' when the comment holds no ' @'
CutPhone(c) ==
    IF Contains(c, SEP) THEN <<Split1(c, SEP)[2]>>
    ELSE IF Contains(c, AT) THEN <<Split1(c, AT)[2]>>
    ELSE <<>>

CutName(c) ==
    IF Contains(c, SEP) THEN Split1(c, SEP)[1]
    ELSE IF Contains(c, AT) THEN Split1(c, AT)[1]
    ELSE c

\* the latest row was a rename that succeeded: its first write is 'Not Pay'
\* in the status cell
Renamed(cmd) ==
    /\ Ran(cmd) /\ last.writes # <<>>
    /\ last.writes[1] = StatusWrite(last.row_index, L_NOT_PAY, Buildings[last.b].status_col)

\* the latest row changed nothing on the device but the comment of its client's record
OnlyCommentChanged ==
    /\ Resolved # <<>>
    /\ last.post.bindings =
          [i \in DOMAIN last.pre.bindings |->
              IF last.pre.bindings[i].id = Resolved[1].id
              THEN [last.pre.bindings[i] EXCEPT !.comment = DeviceRecordAfter.comment]
              ELSE last.pre.bindings[i]]
    /\ DeviceRecordAfter.mac = DeviceRecord.mac
    /\ DeviceRecordAfter.type = DeviceRecord.type
    /\ bindings = last.post.bindings
    /\ last.post.sched = last.pre.sched

(* ------------------------------------------------------------------ *)
(* C18                                                                 *)
(* ------------------------------------------------------------------ *)
\* a RenameClient row that changed the device leaves 'Not Pay' in its status cell
C18_StatusNotPay ==
    (Ran("RenameClient") /\ last.post.bindings # last.pre.bindings) =>
        (Renamed("RenameClient") /\ StatusCellNow = L_NOT_PAY)

\* C18 as stated: a successful RenameClient keeps the phone segment after the
\* separator ' @' as it was, leaves a comment without a phone segment without
\* one, changes neither MAC nor state, and the status cell becomes 'Not Pay'.
C18_PhoneSegmentKept ==
    /\ C18_StatusNotPay
    /\ Renamed("RenameClient") =>
        /\ OnlyCommentChanged
        /\ HasPhoneSegment(DeviceRecordAfter.comment) <=> HasPhoneSegment(DeviceRecord.comment)
        /\ HasPhoneSegment(DeviceRecord.comment) =>
              PhoneSegment(DeviceRecordAfter.comment) = PhoneSegment(DeviceRecord.comment)

\* C18 (amended): a successful RenameClient rewrites only the name part of
\* the record's comment, where the phone part is the text after the first
\* ' @' or, in a comment without ' @', after the first '@': the new comment
\* is the new name, then ' @' and the phone part byte for byte when there is
\* one, and the new name alone when the comment holds no '@'; the record's
\* MAC and state and every other record are unchanged, and the status cell
\* becomes 'Not Pay'.
C18_RenameKeepsPhone ==
    /\ C18_StatusNotPay
    /\ Renamed("RenameClient") =>
        /\ OnlyCommentChanged
        /\ DeviceRecordAfter.comment =
              IF CutPhone(DeviceRecord.comment) # <<>>
              THEN Strip(NotesText) \o SEP \o CutPhone(DeviceRecord.comment)[1]
              ELSE Strip(NotesText)
        /\ ~Contains(Strip(NotesText), AT) =>
              CutPhone(DeviceRecordAfter.comment) = CutPhone(DeviceRecord.comment)

C18_Witness ==
    /\ Renamed("RenameClient") /\ OnlyCommentChanged
    /\ HasPhoneSegment(DeviceRecord.comment)
    /\ DeviceRecordAfter.comment # DeviceRecord.comment
    /\ PhoneSegment(DeviceRecordAfter.comment) = PhoneSegment(DeviceRecord.comment)

C18_WitnessNoPhone ==
    /\ Renamed("RenameClient")
    /\ CutPhone(DeviceRecord.comment) = <<>>
    /\ DeviceRecordAfter.comment = Strip(NotesText)

(* ------------------------------------------------------------------ *)
(* C19                                                                 *)
(* ------------------------------------------------------------------ *)
\* C19 as stated: a successful RenamePhone keeps the name segment before the
\* separator ' @' as it was, appends ' @' and the new phone to a comment
\* without a phone segment, and changes neither MAC nor state.
C19_NameSegmentKept ==
    Renamed("RenamePhone") =>
        /\ OnlyCommentChanged
        /\ NameSegment(DeviceRecordAfter.comment) = NameSegment(DeviceRecord.comment)
        /\ ~HasPhoneSegment(DeviceRecord.comment) =>
              DeviceRecordAfter.comment = DeviceRecord.comment \o SEP \o Strip(NotesText)

\* C19 (amended): a successful RenamePhone rewrites only the phone part of
\* the record's comment, where the name part is the text before the first
\* ' @' or, in a comment without ' @', before the first '@': the new comment
\* is the name part byte for byte, then ' @' and the new phone; a comment
\* that holds no '@' is followed by ' @' and the new phone; the record's MAC
\* and state and every other record are unchanged.
C19_RenameKeepsName ==
    Renamed("RenamePhone") =>
        /\ OnlyCommentChanged
        /\ DeviceRecordAfter.comment = CutName(DeviceRecord.comment) \o SEP \o Strip(NotesText)
        /\ ~Contains(DeviceRecord.comment, AT) =>
              DeviceRecordAfter.comment = DeviceRecord.comment \o SEP \o Strip(NotesText)
        /\ CutName(DeviceRecordAfter.comment) = CutName(DeviceRecord.comment)

C19_Witness ==
    /\ Renamed("RenamePhone") /\ OnlyCommentChanged
    /\ HasPhoneSegment(DeviceRecord.comment)
    /\ DeviceRecordAfter.comment # DeviceRecord.comment
    /\ NameSegment(DeviceRecordAfter.comment) = NameSegment(DeviceRecord.comment)

C19_WitnessNoPhone ==
    /\ Renamed("RenamePhone")
    /\ ~Contains(DeviceRecord.comment, AT)
    /\ DeviceRecordAfter.comment = DeviceRecord.comment \o SEP \o Strip(NotesText)

(* ------------------------------------------------------------------ *)
(* C21                                                                 *)
(* ------------------------------------------------------------------ *)
\* the latest row ran one of the four commands that carry a result label
\* and ended in success: it wrote one status and that is no failure label
C21_Case ==
    /\ last.kind = "row" /\ last.admitted
    /\ last.cmd \in {"Limit", "New", "UpdMac", "Activate"}
    /\ Len(last.writes) = 1
    /\ last.writes[1].val \notin (FailureCodes \cup {L_OLD_DATE})

\* the whole text after the first '=', with NOT-PAY shown as 'Not Pay'
WholeLabel(status) ==
    IF Upper(SuffixAfterEq(status)) = NOT_PAY_ALIAS THEN L_NOT_PAY ELSE SuffixAfterEq(status)

\* C21 (in full): for each of LIMIT=, NEW=, UPD-MAC= and ACTIVATE=, the label written
\* on success is the whole text after the first '=' of the status, except
\* that NOT-PAY in any letter case is written as 'Not Pay', for all four
\* commands alike.
C21_LabelOnSuccess == C21_Case => WroteOnly(WholeLabel(last.status))

\* C21 (the alias): a successful row of any of the four commands whose
\* label is NOT-PAY in any letter case writes 'Not Pay'
C21_AliasForAllFour ==
    (C21_Case /\ Upper(SuffixAfterEq(last.status)) = NOT_PAY_ALIAS) => WroteOnly(L_NOT_PAY)

(* ------------------------------------------------------------------ *)
(* C22                                                                 *)
(* ------------------------------------------------------------------ *)
\* a text begins with a prefix
Begins(text, prefix) ==
    /\ Len(text) >= Len(prefix)
    /\ \A i \in DOMAIN prefix : text[i] = prefix[i]

\* a status text is one of the commands: CUT or NOT PAY in any letter case,
\* or a text that begins with one of the six prefixes in any letter case
Recognized(status) ==
    \/ Upper(status) \in {CMD_CUT, CMD_NOT_PAY}
    \/ \E p \in {CMD_LIMIT, CMD_NEW, CMD_UPD_MAC, CMD_ACTIVATE, CMD_RE_NAME, CMD_RE_NUMBER} :
          Begins(Upper(status), p)

\* C22: a row whose status text is none of the recognized commands causes no
\* device mutation, no schedule change and no write to any sheet cell.
C22_UnrecognizedDoesNothing ==
    (last.kind = "row" /\ ~Recognized(last.status)) => DidNothing

\* a row with a client and a status that holds a command's text, though not
\* at its start, and notes that a New would bind
C22_Witness ==
    /\ last.kind = "row" /\ last.client # <<>> /\ HasNotes
    /\ Contains(Upper(last.status), CMD_NEW)
    /\ ~Recognized(last.status)
    /\ Resolved = <<>>
    /\ DidNothing

(* ------------------------------------------------------------------ *)
(* C23                                                                 *)
(* ------------------------------------------------------------------ *)
\* the commands whose branch reads the notes cell without looking at the
\* row's length
ReadsNotesUnguarded == {"Limit", "New", "UpdMac", "RenamePhone"}

\* a fault was raised while the latest row was processed: its branch read a
\* notes cell the row is too short to hold, or a device call failed
C23_Fault ==
    /\ last.kind = "row"
    /\ \/ last.admitted /\ last.cmd \in ReadsNotesUnguarded /\ last.notes = <<>>
       \/ last.F # {}

\* the pass stands at the row after the latest one: the next row of the same
\* building, else the first row of the next building, and it has ended only
\* after the last row of the last building
PassGoesOn ==
    IF last.row_index + 1 < Len(values)
    THEN phase = "rows" /\ bi = last.b /\ ri = last.row_index + 2
    ELSE IF last.b < Len(Buildings)
    THEN phase = "rows" /\ bi = last.b + 1 /\ ri = 1
    ELSE phase = "idle"

\* C23: a fault raised while one row is processed (a row too short for its
\* notes cell, a failing device call) never stops the pass: the pass goes
\* on with the next row of the building and then with the rows of the later
\* buildings.
C23_FaultNeverStopsPass == C23_Fault => PassGoesOn

\* the first row of the sheet is a New row too short for its notes cell, so
\* it raised when the first building was processed, and the pass has since
\* processed the second row for the second building and written its status
C23_Witness ==
    /\ last.kind = "row" /\ last.b = 2 /\ last.row_index = 1
    /\ Len(values[1]) = 2
    /\ row_raises(Buildings[1], 0, values)
    /\ last.admitted /\ last.writes # <<>>

\* a row whose device call failed is followed by the next row of its building
C23_WitnessDeviceCall ==
    /\ last.kind = "row" /\ last.b = 1 /\ last.row_index = 0
    /\ Ran("Cut") /\ "set" \in last.F /\ Resolved # <<>> /\ last.writes = <<>>
    /\ phase = "rows" /\ bi = 1 /\ ri = 2

(* ------------------------------------------------------------------ *)
(* C24                                                                 *)
(* ------------------------------------------------------------------ *)
\* what the latest row would have done had no device call failed
Unfailed == process_row(last.pre, Buildings[last.b], last.row_index, values, {})

\* a device call failed while the latest row was processed, and the row
\* came out differently for it
C24_CallFailed ==
    /\ last.kind = "row" /\ last.admitted
    /\ last.F # {}
    /\ Unfailed # Out(last.post, last.writes)

\* the latest row wrote its status cell
WroteStatus ==
    \E k \in DOMAIN last.writes :
        /\ last.writes[k].col = StatusCellOf(Buildings[last.b], last.row_index).col
        /\ last.writes[k].row = StatusCellOf(Buildings[last.b], last.row_index).row

\* C24: when a device call fails with a transport error while a row is
\* processed, for any command, nothing is written to the row's status cell,
\* so the row still holds its command and is tried again in the next cycle.
C24_FailedCallWritesNothing ==
    C24_CallFailed => (~WroteStatus /\ StatusCellNow = last.status)

(* ------------------------------------------------------------------ *)
(* C25                                                                 *)
(* ------------------------------------------------------------------ *)
\* the positions of the dots of a text
DotsOf(text) == {i \in DOMAIN text : text[i] = "."}

\* the group of a text between two positions, both left out
GroupBetween(text, lo, hi) == SubSeq(text, lo + 1, hi - 1)

DecimalDigits == {"0","1","2","3","4","5","6","7","8","9"}

\* the number a group of decimal digits writes
RECURSIVE NumberOf(_)
NumberOf(g) ==
    IF g = <<>> THEN 0
    ELSE LET d == CHOOSE n \in 0..9 : ToString(n) = g[Len(g)]
         IN  NumberOf(SubSeq(g, 1, Len(g) - 1)) * 10 + d

\* a group of 1 to 3 decimal digits whose value is in [0,255]
IsOctet(g) ==
    /\ Len(g) \in 1..3
    /\ \A i \in DOMAIN g : g[i] \in DecimalDigits
    /\ NumberOf(g) \in 0..255

\* a text that consists of four dot-separated groups, each an octet
IsAddressText(text) ==
    /\ Cardinality(DotsOf(text)) = 3
    /\ \E i, j, k \in DotsOf(text) :
          /\ i < j /\ j < k
          /\ IsOctet(GroupBetween(text, 0, i))
          /\ IsOctet(GroupBetween(text, i, j))
          /\ IsOctet(GroupBetween(text, j, k))
          /\ IsOctet(GroupBetween(text, k, Len(text) + 1))

\* C25: isAddress(text) is true exactly when text consists of four
\* dot-separated groups of 1 to 3 decimal digits, each with a value in
\* [0,255]; it is true for '192.168.1.5' and false for 'AA:BB:CC:DD:EE:FF'
\* and for '999.1.1.1'.
C25_IsAddressExactly ==
    call.fn = "is_ip_address" => (call.res <=> IsAddressText(call.arg))

\* C25 on the texts that hold no line feed
C25_ExactlyWithoutLineFeed ==
    (call.fn = "is_ip_address" /\ \A i \in DOMAIN call.arg : call.arg[i] # LF)
        => (call.res <=> IsAddressText(call.arg))

\* the three texts C25 names
C25_NamedTexts ==
    /\ is_ip_address(<<"1","9","2",".","1","6","8",".","1",".","5">>)
    /\ ~is_ip_address(<<"A","A",":","B","B",":","C","C",":","D","D",":","E","E",":","F","F">>)
    /\ ~is_ip_address(<<"9","9","9",".","1",".","1",".","1">>)

(* ------------------------------------------------------------------ *)
(* C26                                                                 *)
(* ------------------------------------------------------------------ *)
\* the latest row changed the device's binding list and no device call failed
C26_Mutated ==
    /\ last.kind = "row" /\ FaultFree
    /\ last.post.bindings # last.pre.bindings

\* C26: every successful mutating operation (set Blocked, set Active, create,
\* updateMac, rename, placeholder deletion) is followed by a rebuild of the
\* directory snapshot from the device, so that a later row of the same cycle
\* reads the post-mutation state of the record.
C26_MutationRebuildsDirectory ==
    C26_Mutated => last.post.cache = load_clients(last.post.bindings, {})

\* C26 for the operations other than set Blocked and set Active
C26_RebuildsExceptBlockActivate ==
    (C26_Mutated /\ last.cmd \in {"New", "UpdMac", "RenameClient", "RenamePhone"})
        => last.post.cache = load_clients(last.post.bindings, {})

\* C26, the example: a NotPay row processed after a Cut row for the same
\* client in the same cycle sees the client as Blocked
C26_LaterRowSeesBlocked ==
    (/\ Ran("NotPay") /\ Resolved # <<>> /\ HasId(last.pre.bindings, Resolved[1].id)
     /\ ById(last.pre.bindings, Resolved[1].id).type = TYPE_BLOCKED)
        => is_client_blocked(last.pre, last.client)

(* ------------------------------------------------------------------ *)
(* C27                                                                 *)
(* ------------------------------------------------------------------ *)
\* the failure codes C27 names
C27_Codes ==
    {L_ALREADY_EXISTS, L_IP_NOT_FOUND, L_WRONG_MAC, L_DELETE_FAILED, L_CLIENT_NOT_FOUND}

\* the latest row was a New or UpdMac row that ended in one of the codes
C27_Case ==
    /\ last.kind = "row" /\ last.admitted
    /\ last.cmd \in {"New", "UpdMac"}
    /\ Len(last.writes) = 1
    /\ last.writes[1].val \in C27_Codes

\* C27: whenever a New or UpdMac command ends in a failure code, the device's
\* binding list and the directory snapshot are the same as before the
\* command was processed.
C27_FailureLeavesAllAsBefore ==
    C27_Case =>
        /\ last.post.bindings = last.pre.bindings
        /\ last.post.cache = last.pre.cache
        /\ bindings = last.pre.bindings

(* ------------------------------------------------------------------ *)
(* C28                                                                 *)
(* ------------------------------------------------------------------ *)
\* the directory load at the start of the current cycle failed
LoadFailed == ~last.loaded

\* C28 (no row is processed): if loading the client directory fails at the
\* start of a cycle, the remainder of the cycle is aborted and no row is
\* processed.
C28_LoadFailureAbortsCycle == LoadFailed => (phase = "idle" /\ last.kind # "row")

\* C28 (no effect): if loading the client directory fails at the start of a
\* cycle, no device mutation is made and no sheet cell is written during
\* that cycle.
C28_LoadFailureNoEffect == (LoadFailed /\ last.kind = "row") => DidNothing

(* ------------------------------------------------------------------ *)
(* C29                                                                 *)
(* ------------------------------------------------------------------ *)
\* the positions of a binding list whose comment is not empty and derives a name
Deriving(bs, name) ==
    {i \in DOMAIN bs : bs[i].comment # <<>> /\ extract_client_name(bs[i].comment) = name}

\* the names the comments of a binding list derive
DerivedNames(bs) ==
    {extract_client_name(bs[i].comment) : i \in {j \in DOMAIN bs : bs[j].comment # <<>>}}

\* the entries of a directory are its names, each once
KeysAre(dir, names) ==
    /\ {dir[k].key : k \in DOMAIN dir} = names
    /\ \A j, k \in DOMAIN dir : dir[j].key = dir[k].key => j = k

\* no binding with an empty comment is in the directory
NoEmptyComment(dir) == \A k \in DOMAIN dir : dir[k].val.comment # <<>>

\* the latest call loaded the directory from a binding list
Loaded == call.fn = "load_clients"

\* C29 as stated: when two bindings derive the same client name, the
\* directory maps the name to the one that comes first in the device's scan
\* order; bindings with an empty comment are not in the directory.
C29_FirstInScanWins ==
    Loaded =>
        /\ KeysAre(call.res, DerivedNames(call.arg))
        /\ NoEmptyComment(call.res)
        /\ \A k \in DOMAIN call.res :
              \E i \in Deriving(call.arg, call.res[k].key) :
                  /\ call.res[k].val = call.arg[i]
                  /\ \A j \in Deriving(call.arg, call.res[k].key) : i <= j

\* C29 (amended): when the directory is built and two device bindings derive
\* the same client name from their comments, the directory maps that name to
\* the binding that comes last in the device's scan order; bindings with an
\* empty comment are not in the directory.
C29_LastInScanWins ==
    Loaded =>
        /\ KeysAre(call.res, DerivedNames(call.arg))
        /\ NoEmptyComment(call.res)
        /\ \A k \in DOMAIN call.res :
              \E i \in Deriving(call.arg, call.res[k].key) :
                  /\ call.res[k].val = call.arg[i]
                  /\ \A j \in Deriving(call.arg, call.res[k].key) : j <= i

\* a list whose first and last binding derive the same name from different
\* comments, with a binding without a comment between them
C29_Witness ==
    /\ Loaded
    /\ call.arg[2].comment = <<>>
    /\ call.arg[1].comment # call.arg[3].comment
    /\ Deriving(call.arg, extract_client_name(call.arg[1].comment)) = {1, 3}
    /\ Len(call.res) = 1
    /\ call.res[1].val = call.arg[3]

(* ------------------------------------------------------------------ *)
(* C30                                                                 *)
(* ------------------------------------------------------------------ *)
\* the latest call resolved a name against the directory of a binding list
Looked == call.fn = "find_client_in_ip_bindings"

\* the directory the latest lookup ran against
LookedDirectory == load_clients(call.arg.bindings, {})

\* the name looked up, stripped
LookedName == Strip(call.arg.client_name)

\* the positions of the directory whose key is exactly the name, equals it
\* case-insensitively, or contains it case-insensitively
ExactKeys == {k \in DOMAIN LookedDirectory : LookedDirectory[k].key = LookedName}

EqualKeys == {k \in DOMAIN LookedDirectory : Lower(LookedDirectory[k].key) = Lower(LookedName)}

ContainingKeys ==
    {k \in DOMAIN LookedDirectory :
        \E i \in 1..(Len(LookedDirectory[k].key) + 1), j \in 0..Len(LookedDirectory[k].key) :
            /\ i <= j + 1
            /\ Lower(SubSeq(LookedDirectory[k].key, i, j)) = Lower(LookedName)}

\* the record at the least of a set of positions of the directory
FirstOf(positions) ==
    LookedDirectory[CHOOSE k \in positions : \A j \in positions : k <= j].val

\* C30: resolve(name) strips the name and returns the record stored under
\* exactly that key if there is one; otherwise the first record in snapshot
\* order whose key equals the name case-insensitively; otherwise the first
\* record in snapshot order whose key contains the name case-insensitively;
\* otherwise not-found. An exact match is preferred over a case-insensitive
\* one and that over a substring match, whatever the snapshot order.
C30_Resolve ==
    Looked =>
        call.res = IF ExactKeys # {} THEN <<FirstOf(ExactKeys)>>
                   ELSE IF EqualKeys # {} THEN <<FirstOf(EqualKeys)>>
                   ELSE IF ContainingKeys # {} THEN <<FirstOf(ContainingKeys)>>
                   ELSE <<>>

\* a lookup with surrounding spaces that finds its exact key behind a key that
\* contains the name and a key that equals it case-insensitively
C30_Witness ==
    /\ Looked
    /\ call.arg.client_name # LookedName
    /\ ExactKeys = {3} /\ EqualKeys = {2, 3} /\ ContainingKeys = {1, 2, 3}
    /\ call.res = <<call.arg.bindings[3]>>

\* a lookup that finds a case-insensitive match behind a containing key
C30_WitnessCaseInsensitive ==
    /\ Looked
    /\ ExactKeys = {} /\ EqualKeys # {} /\ 1 \in ContainingKeys /\ 1 \notin EqualKeys
    /\ call.res = <<FirstOf(EqualKeys)>>

\* a lookup that finds only a containing key, and one that finds nothing
C30_WitnessSubstring ==
    /\ Looked
    /\ EqualKeys = {} /\ Cardinality(ContainingKeys) > 1
    /\ call.res = <<FirstOf(ContainingKeys)>>

C30_WitnessNotFound == Looked /\ LookedDirectory # <<>> /\ ContainingKeys = {} /\ call.res = <<>>

(* ------------------------------------------------------------------ *)
(* C31                                                                 *)
(* ------------------------------------------------------------------ *)
\* the commands whose text a status is, letter case aside: CUT and NOT PAY
\* as the whole text, the others as its beginning
Matching(status) ==
    LET up == Upper(status)
    IN  {c \in {"Cut"} : up = CMD_CUT}
        \cup {c \in {"NotPay"} : up = CMD_NOT_PAY}
        \cup {c \in {"Limit"} : Begins(up, CMD_LIMIT)}
        \cup {c \in {"New"} : Begins(up, CMD_NEW)}
        \cup {c \in {"UpdMac"} : Begins(up, CMD_UPD_MAC)}
        \cup {c \in {"Activate"} : Begins(up, CMD_ACTIVATE)}
        \cup {c \in {"RenameClient"} : Begins(up, CMD_RE_NAME)}
        \cup {c \in {"RenamePhone"} : Begins(up, CMD_RE_NUMBER)}

\* the latest call put a status text through the filter and the branch chain
Dispatched == call.fn = "dispatch"

\* C31: for every status text at most one command is selected, matching is
\* case-insensitive, every status the row filter admits takes exactly one
\* command branch, the one whose text it is, and no status the filter
\* rejects reaches a branch.
C31_FilterAndDispatchAgree ==
    Dispatched =>
        /\ Cardinality(Matching(call.arg)) <= 1
        /\ call.res.admitted <=> call.res.command # ""
        /\ call.res.admitted <=> Matching(call.arg) # {}
        /\ call.res.command # "" => Matching(call.arg) = {call.res.command}
        /\ command_of(Upper(call.arg)) = call.res.command
        /\ command_of(Lower(call.arg)) = call.res.command
        /\ row_filter(Upper(call.arg)) = call.res.admitted
        /\ row_filter(Lower(call.arg)) = call.res.admitted

\* an admitted status in mixed letter case that takes its one branch
C31_Witness ==
    /\ Dispatched /\ call.res.admitted
    /\ call.arg # Upper(call.arg) /\ call.arg # Lower(call.arg)
    /\ call.res.command = "RenamePhone"

\* a rejected status that begins with a command's text and takes no branch
C31_WitnessRejected ==
    /\ Dispatched /\ ~call.res.admitted /\ call.res.command = ""
    /\ Begins(Upper(call.arg), CMD_CUT)

(* ------------------------------------------------------------------ *)
(* C32                                                                 *)
(* ------------------------------------------------------------------ *)
\* the latest row wrote the success label of a state-setting command for a
\* client that resolved to a record the device holds
C32_Wrote(cmd, label) ==
    /\ Ran(cmd) /\ WroteOnly(label)
    /\ Resolved # <<>> /\ HasId(last.post.bindings, Resolved[1].id)

\* the state the device holds the latest row's client in at the write
StateAtWrite == ById(last.post.bindings, Resolved[1].id).type

\* C32: whenever the engine writes a success label for a state-setting
\* command, the client's binding on the device is in the matching state at
\* the moment of the write: Blocked when 'BLOCK' is written for Cut, Active
\* when 'Waiting' is written for NotPay or L is written for Activate=L or
\* Limit=L, after any sequence of earlier rows in the same cycle.
C32_LabelMatchesDeviceState ==
    /\ C32_Wrote("Cut", L_BLOCK) => StateAtWrite = TYPE_BLOCKED
    /\ C32_Wrote("NotPay", L_WAITING) => StateAtWrite = TYPE_BYPASSED
    /\ C32_Wrote("Activate", DisplayLabel(last.status)) => StateAtWrite = TYPE_BYPASSED
    /\ C32_Wrote("Limit", FirstPiece(last.status)) => StateAtWrite = TYPE_BYPASSED

\* C32 for the rows that set the state themselves: Cut and Limit
C32_CutAndLimitMatch ==
    /\ C32_Wrote("Cut", L_BLOCK) => StateAtWrite = TYPE_BLOCKED
    /\ C32_Wrote("Limit", FirstPiece(last.status)) => StateAtWrite = TYPE_BYPASSED

\* C32 for the first row of a cycle whose directory was loaded
C32_FirstRowMatches ==
    (last.kind = "row" /\ last.b = 1 /\ last.row_index = 0 /\ last.loaded)
        => C32_LabelMatchesDeviceState

(* ------------------------------------------------------------------ *)
(* C33                                                                 *)
(* ------------------------------------------------------------------ *)
\* the bindings of a list that carry a comment derive pairwise distinct
\* client names
DistinctNames(bs) ==
    \A i, j \in DOMAIN bs :
        (i # j /\ bs[i].comment # <<>> /\ bs[j].comment # <<>>)
            => extract_client_name(bs[i].comment) # extract_client_name(bs[j].comment)

\* the directory has one entry per commented binding
OneEntryPerBinding(cache, bs) ==
    Len(cache) = Cardinality({i \in DOMAIN bs : bs[i].comment # <<>>})

\* C33: starting from a device state in which all bindings derive pairwise
\* distinct client names, after any sequence of New, RenameClient and
\* RenamePhone commands (no device call failing) all bindings still derive
\* pairwise distinct client names, so the directory has one entry per
\* commented binding and no record becomes unreachable by name.
C33_NamesStayDistinct ==
    /\ \A d \in InitDevices : DistinctNames(d)
    /\ failures = 0 => DistinctNames(bindings)
    /\ (failures = 0 /\ last.kind = "row" /\ last.cmd \in {"New", "RenameClient", "RenamePhone"})
          => OneEntryPerBinding(load_clients(bindings, {}), bindings)

\* the initial device states do derive pairwise distinct names
C33_InitialNamesDistinct == \A d \in InitDevices : DistinctNames(d)

(* ------------------------------------------------------------------ *)
(* C34                                                                 *)
(* ------------------------------------------------------------------ *)
\* the letters of the spreadsheet column with a zero-based index: one letter
\* for the first 26 columns, two for the next 676, three from there on
SheetLetters(n) ==
    IF n < 26 THEN <<UpperAlpha[n + 1]>>
    ELSE IF n < 702
    THEN <<UpperAlpha[((n - 26) \div 26) + 1], UpperAlpha[((n - 26) % 26) + 1]>>
    ELSE <<UpperAlpha[((n - 702) \div 676) + 1],
           UpperAlpha[(((n - 702) \div 26) % 26) + 1],
           UpperAlpha[((n - 702) % 26) + 1]>>

\* the zero-based index of column C, where the data range starts
ColumnC == 2

\* a cell of the sheet, empty when its row is too short to hold it
SheetCell(sh, i, j) == IF j <= Len(sh[i]) THEN sh[i][j] ELSE <<>>

\* the sheet is as before the latest row except in the cells of one row
\* at the given positions
OnlyCellsChanged(i, cols) ==
    \A r \in DOMAIN sheet : \A j \in 1..Width :
        (r # i \/ j \notin cols) => SheetCell(sheet, r, j) = SheetCell(last.sheetBefore, r, j)

\* C34: every status write for a row goes to exactly one cell, in the sheet
\* row row_index + 2 and the sheet column that lies status_col columns to
\* the right of column C, where get_column_letter maps a zero-based column
\* index to its spreadsheet letters (0 to 'A', 25 to 'Z', 26 to 'AA'); no
\* other row's or building's cell is written by update_sheet_status.
C34_StatusWriteCell ==
    /\ get_column_letter(0) = <<"A">>
    /\ get_column_letter(25) = <<"Z">>
    /\ get_column_letter(26) = <<"A","A">>
    /\ (last.kind = "row" /\ last.writes # <<>>) =>
          LET building == Buildings[last.b]
          IN  /\ last.writes[1].row = last.row_index + 2
              /\ last.writes[1].col = SheetLetters(ColumnC + building.status_col)
              /\ StatusCellNow = last.writes[1].val
              /\ IF Ran("RenameClient") /\ Len(last.writes) > 1
                 THEN OnlyCellsChanged(last.row_index + 1,
                          {building.client_col + 1, building.status_col + 1,
                           building.notes_col + 1})
                 ELSE /\ Len(last.writes) = 1
                      /\ OnlyCellsChanged(last.row_index + 1, {building.status_col + 1})

\* C34 for get_column_letter alone, on every index up to the last column of
\* the ranges and two beyond
C34_LettersInRange ==
    call.fn = "get_column_letter" => call.res = SheetLetters(call.arg)

\* a status written for the second building in the second row, while the
\* first building's cells of that row hold text
C34_Witness ==
    /\ last.kind = "row" /\ last.b = 2 /\ last.row_index = 1
    /\ Len(last.writes) = 1
    /\ last.writes[1].col = <<"G">> /\ last.writes[1].row = 3
    /\ sheet[2][5] = last.writes[1].val
    /\ sheet[2][5] # last.sheetBefore[2][5]
    /\ sheet[2][2] # <<>>

\* a three-letter column
C34_WitnessThreeLetters ==
    call.fn = "get_column_letter" /\ call.arg = 702 /\ call.res = <<"A","A","A">>

=============================================================================
